---- MODULE Spec2Model ----
(***************************************************************************)
(* Gazorpazorp: a reverse-proxy security gateway for autonomous agents.    *)
(* The module models the stateful collaborators of the request pipeline:   *)
(* CryptoVerifier and KeyStore over the shared Redis connection, the      *)
(* analysis cache, the intent analyzer, the policy engine and the gateway  *)
(* middleware chain.                                                       *)
(*                                                                         *)
(* Conventions                                                             *)
(*  - time is in milliseconds (Date.now()); Redis TTLs are kept as the     *)
(*    instant at which the key expires;                                    *)
(*  - reputation is kept in tenths (RepScale), so that the trust drift of  *)
(*    +0.1 and the penalty of -5 are the integers +1 and -50;              *)
(*  - every await of the source is a step boundary: the code between two   *)
(*    awaits runs atomically on the event loop, and every Redis command    *)
(*    (a Lua script and a MULTI/EXEC block included) is atomic.            *)
(***************************************************************************)
EXTENDS Integers, Sequences, FiniteSets, TLC

(***************************************************************************)
(* Bounds of the model                                                     *)
(***************************************************************************)
NumTasks == 2
MaxCalls == 3
MaxWindows == 2
MaxPolicyCalls == 12
MaxEvaluations == 1
\* Calls of detectAnomaly and updateProfile in SpecAnomaly.
MaxProfileCalls == 5
\* Calls of registerAgent and updateReputation in SpecRetry.
MaxRetryCalls == 4

(***************************************************************************)
(* Program constants                                                       *)
(***************************************************************************)
TIMESTAMP_TOLERANCE_MS == 30000
NONCE_EXPIRY_S == 60
RepScale == 10
InitialReputation == 50
MaxReputation == 100
InvalidSignaturePenalty == 5
LogCap == 100
maxRetries == 3

Tasks == 1..NumTasks
PublicKeys == {"pkA", "pkB"}
\* Keys an administrator registers ("garbage" is no PEM key); pkB stays unknown.
RegisteredKeys == {"pkA", "garbage"}
Nonces == {"n1", "n2"}

\* Instants the clock can show: the window boundaries and the millisecond after.
TimePoints == {k * TIMESTAMP_TOLERANCE_MS + e : k \in 0..MaxWindows, e \in {0, 1}}
\* Offsets of a request's timestamp from the clock at submission.
TimestampOffsets == {0 - (TIMESTAMP_TOLERANCE_MS + 1), 0, TIMESTAMP_TOLERANCE_MS}
\* Deltas of direct updateReputation calls, in reputation points.
Deltas == {0 - 150, 0 - 20, 60}

NoTTL == 0 - 1
Absent == 0 - 1
NoIdentity == [reputation |-> 0 - 1, ttlFrom |-> NoTTL, id |-> 0, sensitiveDataAccess |-> FALSE]
NoResult == [valid |-> FALSE, error |-> "none", agent |-> NoIdentity, value |-> 0 - 1]
NoReq == [op |-> "none", pk |-> "none", nonce |-> "none", sigOk |-> FALSE]
NoLoc == [fp |-> <<>>, delta |-> 0, attempt |-> 0, read |-> NoIdentity, agent |-> NoIdentity]

VARIABLES
  now,          \* Date.now() / the Redis server clock, ms
  nonceStore,   \* nonce:<fingerprint>:<nonce> -> instant of expiry (0: absent)
  identities,   \* agent:identity:<fingerprint> -> identity or NoIdentity
  repLog,       \* agent:reputation_log:<fingerprint> -> list, newest first
  connWatched,  \* keys WATCHed on the gateway's one Redis connection
  connDirty,    \* a watched key was written since it was watched
  pc,           \* per task: where its call stands
  req,          \* per task: the arguments of the call in progress
  loc,          \* per task: locals of updateReputation(Fallback)
  result,       \* per task: what the last call returned
  budget,       \* calls still to be started
  nextId,       \* stands for randomBytes(16): the next fresh agent id
  passes,       \* history: per nonce key, the instants the guard let a call through
  history,      \* history: per fingerprint, the registrations ("reg") and the deltas
                \* of the updateReputation calls that returned, in order of return
  gw,           \* per task: the HTTP request in the middleware chain (req, res and
                \* req.sentinelContext), and where its two continuations stand
  profiles,     \* profile:<agentId> -> AgentProfile or NoProfile
  agentHistory, \* agent:<agentId>:history -> list of risk scores, newest first
  securityEvents, \* gazorpazorp:security_events, newest first
  threats,      \* messages published on gazorpazorp:threats
  auditLog,     \* gazorpazorp:audit_log, newest first
  rateLimit,    \* ratelimit:<agentId> -> [count, expireAt]
  challenges,   \* challenge:<id> -> Challenge
  challengeCount, \* challenges:count:<agentId> -> [count, expireAt]
  nextChallenge,  \* stands for randomBytes(16): the next fresh challenge id
  cache,        \* analysis:<key> -> cached AnalysisResult
  rules,        \* PolicyEngine.rules
  args,         \* the arguments of the last call of a function checked on its own
  returned      \* and what the call returned

cryptoVars == <<now, nonceStore, identities, repLog, connWatched, connDirty,
                pc, req, loc, result, budget, nextId, passes, history>>
gatewayVars == <<gw, profiles, agentHistory, securityEvents, threats, auditLog,
                 rateLimit, challenges, challengeCount, nextChallenge, cache, rules>>
unitVars == <<args, returned>>

vars == <<cryptoVars, gatewayVars, unitVars>>

Max(a, b) == IF a >= b THEN a ELSE b
Min(a, b) == IF a <= b THEN a ELSE b
Abs(a) == IF a >= 0 THEN a ELSE 0 - a

(***************************************************************************)
(* CryptoVerifier and KeyStore: pure parts                                 *)
(***************************************************************************)
\* createHash("sha256").update(publicKeyPem).digest("hex"): collision-free.
getFingerprint(pk) == <<"sha256", pk>>
Fingerprints == {getFingerprint(k) : k \in PublicKeys}
NonceKeys == Fingerprints \X Nonces
NonceKey(pk, nonce) == <<getFingerprint(pk), nonce>>

\* A tolerance that rejects the boundary itself.
TimestampExpiredAtTolerance(clock, ts) == Abs(clock - ts) >= TIMESTAMP_TOLERANCE_MS

\* Math.abs(now - timestamp) > TIMESTAMP_TOLERANCE_MS
TimestampExpired(clock, ts) == Abs(clock - ts) > TIMESTAMP_TOLERANCE_MS

\* A Redis key with an expiry is there until the server clock passes it.
KeyLive(store, key, clock) == store[key] # Absent /\ clock <= store[key]

\* A SET that leaves out NX answers "OK" whether or not the key is there.
SetWithoutNx(store, key, clock) == TRUE

\* A guard that looks the key up and writes nothing.
SetNxStoreNothing(store, key, clock) == store

\* redis.set(nonceKey, "used", "EX", NONCE_EXPIRY_S, "NX"): "OK" or null.
SetNxIsNew(store, key, clock) == ~KeyLive(store, key, clock)
SetNxStore(store, key, clock) ==
  IF SetNxIsNew(store, key, clock)
  THEN [store EXCEPT ![key] = clock + NONCE_EXPIRY_S * 1000]
  ELSE store

\* The sum as it is, with no clamp.
Unclamped(r) == r

\* Math.max(0, Math.min(100, old + delta)), in tenths.
ClampReputation(r) == Max(0, Min(MaxReputation * RepScale, r))

LogEntry(old, new, delta) == [oldReputation |-> old, newReputation |-> new, delta |-> delta]
\* LPUSH then LTRIM 0 99
PushLog(log, e) == SubSeq(<<e>> \o log, 1, Min(Len(log) + 1, LogCap))

\* A write to a key marks the connection dirty when the key is watched.
TouchKey(fp) == connDirty' = (connDirty \/ fp \in connWatched)

(***************************************************************************)
(* Initial state of the store and of the tasks                             *)
(***************************************************************************)
CryptoStateOver(keys) ==
  /\ now = 0
  /\ nonceStore = [k \in keys |-> Absent]
  /\ identities = [f \in Fingerprints |-> NoIdentity]
  /\ repLog = [f \in Fingerprints |-> <<>>]
  /\ connWatched = {}
  /\ connDirty = FALSE
  /\ pc = [t \in Tasks |-> "idle"]
  /\ req = [t \in Tasks |-> NoReq]
  /\ loc = [t \in Tasks |-> NoLoc]
  /\ result = [t \in Tasks |-> NoResult]
  /\ nextId = 1
  /\ passes = [k \in keys |-> <<>>]
  /\ history = [f \in Fingerprints |-> <<>>]

CryptoState == CryptoStateOver(NonceKeys)

CryptoInit == CryptoState /\ budget = MaxCalls

\* The event loop takes up a new call; tasks are interchangeable, so the
\* lowest free one takes it.
Idle(t) == /\ pc[t] \in {"idle", "done"}
           /\ gw[t].main \in {"none", "closed"}
           /\ gw[t].post \in {"none", "closed"}
Free(t) == Idle(t) /\ \A u \in Tasks : u < t => ~Idle(u)

\* The clock moves on.
Tick ==
  /\ UNCHANGED <<gatewayVars, unitVars>>
  /\ \E t \in TimePoints : t > now /\ now' = t
  /\ UNCHANGED <<nonceStore, identities, repLog, connWatched, connDirty,
                 pc, req, loc, result, budget, nextId, passes, history>>

(***************************************************************************)
(* CryptoVerifier.registerAgent -> KeyStore.saveIdentity                   *)
(***************************************************************************)
\* createPublicKey(publicKeyPem) accepts the key.
ValidKeyFormat(pk) == pk \in PublicKeys

NewIdentity(id, sens, clock) ==
  [reputation |-> InitialReputation * RepScale, ttlFrom |-> clock, id |-> id,
   sensitiveDataAccess |-> sens]

RegisterAgent(pk, sens) ==
  /\ UNCHANGED <<gatewayVars, unitVars>>
  /\ budget > 0
  /\ budget' = budget - 1
  /\ IF ValidKeyFormat(pk)
     THEN /\ identities' = [identities EXCEPT
                              ![getFingerprint(pk)] = NewIdentity(nextId, sens, now)]
          /\ nextId' = nextId + 1
          /\ TouchKey(getFingerprint(pk))
     ELSE UNCHANGED <<identities, nextId, connDirty>>
  /\ history' = IF ValidKeyFormat(pk)
                THEN [history EXCEPT ![getFingerprint(pk)] = Append(@, [op |-> "reg", delta |-> 0])]
                ELSE history
  /\ UNCHANGED <<now, nonceStore, repLog, connWatched, pc, req, loc, result, passes>>

(***************************************************************************)
(* KeyStore.updateReputation: the Lua script, then the WATCH fallback.     *)
(* A task runs it either as its own call (req.op = "update") or inside     *)
(* verifyRequest (req.op = "verify").                                      *)
(***************************************************************************)
Failure(err) == [valid |-> FALSE, error |-> err, agent |-> NoIdentity, value |-> 0 - 1]

\* A call returns: its locals are gone, its result stays.
Return(t, res) ==
  /\ result' = [result EXCEPT ![t] = res]
  /\ pc' = [pc EXCEPT ![t] = "done"]
  /\ req' = [req EXCEPT ![t] = NoReq]
  /\ loc' = [loc EXCEPT ![t] = NoLoc]

\* What the caller makes of updateReputation's return (ok) or throw.
UpdateOutcome(t, ok, newRep, err) ==
  IF req[t].op = "update"
  THEN IF ok
       THEN [valid |-> TRUE, error |-> "none", agent |-> NoIdentity, value |-> newRep]
       ELSE Failure(err)
  ELSE IF ~req[t].sigOk
       THEN \* the call sits inside the try block of verifyRequest
            IF ok THEN Failure("Invalid signature")
                  ELSE Failure("Signature verification failed")
       ELSE IF ok
            THEN \* { valid: true, agent }: the identity as it was looked up
                 [valid |-> TRUE, error |-> "none", agent |-> loc[t].agent, value |-> 0 - 1]
            ELSE Failure("threw")

UpdateReturns(t, ok, newRep, err) ==
  /\ Return(t, UpdateOutcome(t, ok, newRep, err))
  /\ history' = IF ok THEN [history EXCEPT ![loc[t].fp] = Append(@, [op |-> "update", delta |-> loc[t].delta])]
                ELSE history

\* UPDATE_REPUTATION_SCRIPT on an identity that is there: SET drops the TTL.
ScriptIdentity(identity, delta) ==
  [identity EXCEPT !.reputation = ClampReputation(@ + delta), !.ttlFrom = NoTTL]

UpdateScript(t) ==
  /\ UNCHANGED <<gatewayVars, unitVars>>
  /\ pc[t] = "u_script"
  /\ LET fp == loc[t].fp
         old == identities[fp]
     IN IF old = NoIdentity
        THEN \* {-1, 0}: "Agent not found" is thrown inside the try, and its
             \* message makes the catch take the fallback
             /\ pc' = [pc EXCEPT ![t] = "f_watch"]
             /\ UNCHANGED <<identities, repLog, connDirty, result, req, loc, history>>
        ELSE /\ identities' = [identities EXCEPT ![fp] = ScriptIdentity(old, loc[t].delta)]
             /\ repLog' = [repLog EXCEPT ![fp] =
                   PushLog(@, LogEntry(old.reputation,
                                       ScriptIdentity(old, loc[t].delta).reputation,
                                       loc[t].delta))]
             /\ TouchKey(fp)
             /\ UpdateReturns(t, TRUE, ScriptIdentity(old, loc[t].delta).reputation, "none")
  /\ UNCHANGED <<now, nonceStore, connWatched, budget, nextId, passes>>

\* await this.redis.watch(key)
FallbackWatch(t) ==
  /\ UNCHANGED <<gatewayVars, unitVars>>
  /\ pc[t] = "f_watch"
  /\ connWatched' = connWatched \cup {loc[t].fp}
  /\ pc' = [pc EXCEPT ![t] = "f_get"]
  /\ UNCHANGED <<now, nonceStore, identities, repLog, connDirty, req, loc, result,
                 budget, nextId, passes, history>>

\* const data = await this.redis.get(key)
FallbackGet(t) ==
  /\ UNCHANGED <<gatewayVars, unitVars>>
  /\ pc[t] = "f_get"
  /\ IF identities[loc[t].fp] = NoIdentity
     THEN /\ pc' = [pc EXCEPT ![t] = "f_unwatch_notfound"]
          /\ UNCHANGED loc
     ELSE /\ pc' = [pc EXCEPT ![t] = "f_exec"]
          /\ loc' = [loc EXCEPT ![t].read = identities[loc[t].fp]]
  /\ UNCHANGED <<now, nonceStore, identities, repLog, connWatched, connDirty, req,
                 result, budget, nextId, passes, history>>

\* UNWATCH forgets every key watched on the connection.
Unwatch ==
  /\ connWatched' = {}
  /\ connDirty' = FALSE

\* if (!data) { await this.redis.unwatch(); throw new Error("Agent not found") }
FallbackUnwatchNotFound(t) ==
  /\ UNCHANGED <<gatewayVars, unitVars>>
  /\ pc[t] = "f_unwatch_notfound"
  /\ Unwatch
  /\ pc' = [pc EXCEPT ![t] = "f_catch"]
  /\ UNCHANGED <<now, nonceStore, identities, repLog, req, loc, result,
                 budget, nextId, passes, history>>

\* catch (error) { await this.redis.unwatch(); if (attempt === maxRetries - 1) throw error }
FallbackCatch(t) ==
  /\ UNCHANGED <<gatewayVars, unitVars>>
  /\ pc[t] = "f_catch"
  /\ Unwatch
  /\ IF loc[t].attempt = maxRetries - 1
     THEN UpdateReturns(t, FALSE, 0 - 1, "Agent not found")
     ELSE /\ pc' = [pc EXCEPT ![t] = "f_watch"]
          /\ loc' = [loc EXCEPT ![t].attempt = @ + 1]
          /\ UNCHANGED <<result, req, history>>
  /\ UNCHANGED <<now, nonceStore, identities, repLog, budget, nextId, passes>>

\* The identity the fallback writes, from the one it read:
\* multi.setex(key, IDENTITY_TTL, JSON.stringify(identity)).
FallbackIdentity(read, delta, clock) ==
  [read EXCEPT !.reputation = ClampReputation(@ + delta), !.ttlFrom = clock]

\* An EXEC that commits whatever was written meanwhile.
ExecCommitsAlways == TRUE

\* EXEC commits unless a key watched on the connection was written since.
ExecCommits == ~connDirty

\* const results = await multi.exec(): MULTI, SETEX, LPUSH, LTRIM, EXEC
FallbackExec(t) ==
  /\ UNCHANGED <<gatewayVars, unitVars>>
  /\ pc[t] = "f_exec"
  /\ Unwatch
  /\ LET fp == loc[t].fp
         new == FallbackIdentity(loc[t].read, loc[t].delta, now)
     IN IF ExecCommits
        THEN /\ identities' = [identities EXCEPT ![fp] = new]
             /\ repLog' = [repLog EXCEPT ![fp] =
                   PushLog(@, LogEntry(loc[t].read.reputation, new.reputation,
                                       loc[t].delta))]
             /\ UpdateReturns(t, TRUE, new.reputation, "none")
        ELSE \* results === null: continue
             /\ UNCHANGED <<identities, repLog>>
             /\ IF loc[t].attempt + 1 < maxRetries
                THEN /\ pc' = [pc EXCEPT ![t] = "f_watch"]
                     /\ loc' = [loc EXCEPT ![t].attempt = @ + 1, ![t].read = NoIdentity]
                     /\ UNCHANGED <<result, req, history>>
                ELSE UpdateReturns(t, FALSE, 0 - 1,
                                   "Failed to update reputation after max retries")
  /\ UNCHANGED <<now, nonceStore, budget, nextId, passes>>

\* A task calls keyStore.updateReputation(fingerprint, delta) itself.
UpdateReputation(t, pk, delta) ==
  /\ UNCHANGED <<gatewayVars, unitVars>>
  /\ Free(t)
  /\ budget > 0
  /\ budget' = budget - 1
  /\ req' = [req EXCEPT ![t] = [op |-> "update", pk |-> pk, nonce |-> "none",
                                 sigOk |-> FALSE]]
  /\ loc' = [loc EXCEPT ![t] = [fp |-> getFingerprint(pk), delta |-> delta * RepScale,
                                 attempt |-> 0, read |-> NoIdentity, agent |-> NoIdentity]]
  /\ result' = [result EXCEPT ![t] = NoResult]
  /\ pc' = [pc EXCEPT ![t] = "u_script"]
  /\ UNCHANGED <<now, nonceStore, identities, repLog, connWatched, connDirty,
                 nextId, passes, history>>

(***************************************************************************)
(* CryptoVerifier.verifyRequest                                            *)
(***************************************************************************)
\* 1. timestamp freshness, decided before the first await.
verifyRequestBegin(t, pk, nonce, ts, sigOk) ==
  /\ Free(t)
  /\ budget > 0
  /\ budget' = budget - 1
  /\ IF TimestampExpired(now, ts)
     THEN Return(t, Failure("Request expired or clock skew detected"))
     ELSE /\ req' = [req EXCEPT ![t] = [op |-> "verify", pk |-> pk, nonce |-> nonce,
                                        sigOk |-> sigOk]]
          /\ loc' = [loc EXCEPT ![t] = NoLoc]
          /\ result' = [result EXCEPT ![t] = NoResult]
          /\ pc' = [pc EXCEPT ![t] = "v_nonce"]
  /\ UNCHANGED <<now, nonceStore, identities, repLog, connWatched, connDirty,
                 nextId, passes, history>>

VerifyRequest(t, pk, nonce, ts, sigOk) ==
  /\ verifyRequestBegin(t, pk, nonce, ts, sigOk)
  /\ UNCHANGED <<gatewayVars, unitVars>>

\* 2. the nonce guard: one SET ... EX 60 NX.
NonceGuard(t) ==
  /\ UNCHANGED <<gatewayVars, unitVars>>
  /\ pc[t] = "v_nonce"
  /\ LET key == NonceKey(req[t].pk, req[t].nonce)
     IN /\ nonceStore' = SetNxStore(nonceStore, key, now)
        /\ IF SetNxIsNew(nonceStore, key, now)
           THEN /\ pc' = [pc EXCEPT ![t] = "v_lookup"]
                /\ passes' = [passes EXCEPT ![key] = Append(@, now)]
                /\ UNCHANGED <<result, req, loc>>
           ELSE /\ Return(t, Failure("Nonce already used - potential replay attack"))
                /\ UNCHANGED passes
  /\ UNCHANGED <<now, identities, repLog, connWatched, connDirty, budget, nextId,
                 history>>

\* Twice the drift and twice the penalty.
SignatureDeltaDouble(sigOk) == IF sigOk THEN 2 ELSE 0 - 2 * InvalidSignaturePenalty * RepScale

\* A failed signature that costs nothing.
SignatureDeltaFree(sigOk) == IF sigOk THEN 1 ELSE 0

\* A signature that does not verify would earn the drift of one that does.
DriftAlways(sigOk) == 1

\* updateReputation(fingerprint, -5) on an invalid signature, (fingerprint, 0.1)
\* on a valid one, in tenths.
SignatureDelta(sigOk) == IF sigOk THEN 1 ELSE 0 - InvalidSignaturePenalty * RepScale

\* 3. the agent lookup, and 4. the signature check that follows it without an
\* await; the call of updateReputation it makes is left to UpdateScript.
AgentLookup(t) ==
  /\ UNCHANGED <<gatewayVars, unitVars>>
  /\ pc[t] = "v_lookup"
  /\ LET fp == getFingerprint(req[t].pk)
         agent == identities[fp]
     IN IF agent = NoIdentity
        THEN Return(t, Failure("Unknown agent - not registered"))
        ELSE /\ loc' = [loc EXCEPT ![t] =
                    [fp |-> fp,
                     delta |-> SignatureDelta(req[t].sigOk),
                     attempt |-> 0, read |-> NoIdentity, agent |-> agent]]
             /\ pc' = [pc EXCEPT ![t] = "u_script"]
             /\ UNCHANGED <<result, req>>
  /\ UNCHANGED <<now, nonceStore, identities, repLog, connWatched, connDirty,
                 budget, nextId, passes, history>>

(***************************************************************************)
(* Requests as the gateway sees them                                       *)
(***************************************************************************)
\* A path is its list of segments; a body is the phrases it holds and the
\* length of JSON.stringify(body).
NumericSegments == {"42", "7"}
UuidSegments == {"123e4567-e89b-12d3-a456-426614174000"}
AdminSegments == {"admin", "administrators"}
NoBody == [phrases |-> {}, size |-> 0]
SmallBody == [phrases |-> {"weather report"}, size |-> 2]
LargeBody == [phrases |-> {"weather report"}, size |-> 102]
InjectionBody == [phrases |-> {"ignore previous instructions"}, size |-> 52]
DataPath == <<"api", "data">>
AdminPath == <<"api", "admin", "users">>
ReportsPath == <<"api", "reports">>

(***************************************************************************)
(* IntentAnalyzer: pre-screen, tiers and the fail-safe ladder.             *)
(* confidence is kept in hundredths.                                       *)
(***************************************************************************)
\* Object.keys(THREAT_PATTERNS), in the order of the literal.
ThreatOrder ==
  <<"prompt_injection", "data_exfiltration", "privilege_escalation", "command_injection">>
ThreatTypes == {ThreatOrder[i] : i \in 1..Len(ThreatOrder)}

\* Each pattern list, as the phrases (of those a body can hold) it matches.
THREAT_PATTERNS ==
  [ty \in ThreatTypes |->
     CASE ty = "prompt_injection" ->
            {"ignore previous instructions", "system: dump the database"}
       [] ty = "data_exfiltration" -> {"dump the database", "system: dump the database"}
       [] ty = "privilege_escalation" -> {"grant me admin"}
       [] ty = "command_injection" -> {"| bash"}]

preScreen(content) ==
  LET matchedThreats ==
        SelectSeq(ThreatOrder, LAMBDA ty : content \cap THREAT_PATTERNS[ty] # {})
  IN [suspicious |-> Len(matchedThreats) > 0, matchedThreats |-> matchedThreats]

NoAnalysis ==
  [isMalicious |-> FALSE, confidence |-> 0 - 1, threatType |-> "undefined",
   explanation |-> "none", suggestedAction |-> "none", riskScore |-> 0 - 1]

\* What the LLM call came to: the service unreachable, a reply that is no
\* JSON, or a JSON object with these fields (isMalicious by its JSON type).
NoLlmReply ==
  [kind |-> "unreachable", isMalicious |-> "missing", confidence |-> 0,
   threatType |-> "missing", explanation |-> "missing", riskScore |-> 0]

\* A schema that asks only for a JSON object.
LlmResponseAnyObject(raw) == raw.kind = "json"

\* LlmResponseSchema.safeParse(rawAnalysis).success
LlmResponseSchema(raw) ==
  /\ raw.kind = "json"
  /\ raw.isMalicious \in {"true", "false"}
  /\ raw.confidence >= 0 /\ raw.confidence <= 100
  /\ raw.explanation = "text"
  /\ raw.riskScore >= 0 /\ raw.riskScore <= 100

\* adjustedRisk = riskScore - (reputation - 50) * 0.3, times 100.
determineAction(riskScore, reputation) ==
  LET adjustedRisk == riskScore * 100 - (reputation - 50 * RepScale) * 3
  IN IF adjustedRisk >= 8000 THEN "block"
     ELSE IF adjustedRisk >= 6000 THEN "challenge"
     ELSE IF adjustedRisk >= 4000 THEN "rate_limit"
     ELSE "allow"

\* A skip on reputation alone.
SkipsTrusted(body, reputation) == reputation > 95 * RepScale

\* Tier A: !suspicious && reputation > 95 returns before any LLM call.
SkipsAnalysis(body, reputation) ==
  ~preScreen(body.phrases).suspicious /\ reputation > 95 * RepScale

TierAResult ==
  [isMalicious |-> FALSE, confidence |-> 95, threatType |-> "undefined",
   explanation |-> "Tier A", suggestedAction |-> "allow", riskScore |-> 5]

\* A ladder that lets everyone through when the LLM is down.
FailOpen(pre, reputation) ==
  [isMalicious |-> FALSE, confidence |-> 30, threatType |-> "undefined",
   explanation |-> "LLM analysis unavailable", suggestedAction |-> "allow",
   riskScore |-> 20]

\* The catch block of analyzeIntent.
FailSafe(pre, reputation) ==
  IF pre.suspicious
  THEN [isMalicious |-> TRUE, confidence |-> 80, threatType |-> pre.matchedThreats[1],
        explanation |-> "LLM analysis unavailable", suggestedAction |-> "block",
        riskScore |-> 90]
  ELSE IF reputation < 60 * RepScale
  THEN [isMalicious |-> TRUE, confidence |-> 50, threatType |-> "undefined",
        explanation |-> "LLM analysis unavailable", suggestedAction |-> "block",
        riskScore |-> 80]
  ELSE IF reputation < 85 * RepScale
  THEN [isMalicious |-> FALSE, confidence |-> 40, threatType |-> "undefined",
        explanation |-> "LLM analysis unavailable", suggestedAction |-> "challenge",
        riskScore |-> 50]
  ELSE [isMalicious |-> FALSE, confidence |-> 30, threatType |-> "undefined",
        explanation |-> "LLM analysis unavailable", suggestedAction |-> "allow",
        riskScore |-> 20]

\* The try block once fetch has settled with raw, or thrown.
AfterLlm(body, reputation, raw) ==
  IF LlmResponseSchema(raw)
  THEN [isMalicious |-> raw.isMalicious = "true",
        confidence |-> raw.confidence,
        threatType |-> IF raw.threatType = "missing" THEN "none" ELSE raw.threatType,
        explanation |-> "Tier LLM",
        suggestedAction |-> determineAction(raw.riskScore, reputation),
        riskScore |-> raw.riskScore]
  ELSE FailSafe(preScreen(body.phrases), reputation)

\* IntentAnalyzer.analyzeIntent, given what the LLM call comes to.
analyzeIntent(body, reputation, raw) ==
  IF SkipsAnalysis(body, reputation) THEN TierAResult
  ELSE AfterLlm(body, reputation, raw)

(***************************************************************************)
(* AnalysisCache                                                           *)
(***************************************************************************)
CacheTTL == 1800

getReputationBucket(reputation) ==
  IF reputation >= 90 * RepScale THEN "trusted"
  ELSE IF reputation >= 70 * RepScale THEN "high"
  ELSE IF reputation >= 50 * RepScale THEN "medium"
  ELSE IF reputation >= 30 * RepScale THEN "low"
  ELSE "untrusted"

\* .replace(UUID, ":uuid").replace(/\/\d+(?=\/|$)/g, "/:id")
normalizePath(path) ==
  [i \in 1..Len(path) |->
     IF path[i] \in UuidSegments THEN ":uuid"
     ELSE IF path[i] \in NumericSegments THEN ":id"
     ELSE path[i]]

\* The key of the first edition of the cache: no reputation bucket in it.
generateKeyWithoutBucket(request, reputationBucket) ==
  <<"sha256", request.method, normalizePath(request.path), <<"sha256", request.body>>>>

\* sha256 over {method, path, bodyHash, reputationBucket}: collision-free.
generateKey(request, reputationBucket) ==
  <<"sha256", request.method, normalizePath(request.path), <<"sha256", request.body>>,
    reputationBucket>>

CacheKeyOf(request, reputation) == generateKey(request, getReputationBucket(reputation))

CacheHit(store, key, clock) == key \in DOMAIN store /\ clock <= store[key].expireAt

\* redis.setex(key, ttl, JSON.stringify(result)); byReputation is history.
CachePut(store, key, analysis, reputation, clock) ==
  [k \in DOMAIN store \cup {key} |->
     IF k = key
     THEN [analysis |-> analysis, expireAt |-> clock + CacheTTL * 1000,
           byReputation |-> reputation]
     ELSE store[k]]

\* A hit handed on as it was stored.
CachedAsStored(analysis) == analysis

\* { ...cached, explanation: `[CACHED] ${cached.explanation}` }
CachedCopy(analysis) == [analysis EXCEPT !.explanation = "[CACHED] " \o @]

(***************************************************************************)
(* PolicyEngine                                                            *)
(***************************************************************************)
NoParams == [reason |-> "none", maxRequests |-> 0, windowSeconds |-> 0]
AllowAction == [type |-> "allow", params |-> NoParams]
NoRule == [id |-> "null", priority |-> 0, conditions |-> <<>>, action |-> AllowAction,
           enabled |-> FALSE]
NoDecision == [action |-> [type |-> "none", params |-> NoParams], matchedRule |-> NoRule]

\* A condition holds its value as a number or as text, whichever the literal is.
Cond(field, operator, num, str) ==
  [field |-> field, operator |-> operator, num |-> num, str |-> str]

DEFAULT_RULES ==
  << [id |-> "block_high_risk", priority |-> 1,
      conditions |-> <<Cond("analysis.riskScore", "gt", 90, "")>>,
      action |-> [type |-> "deny",
                  params |-> [NoParams EXCEPT !.reason = "High risk score detected"]],
      enabled |-> TRUE],
     [id |-> "rate_limit_untrusted", priority |-> 10,
      conditions |-> <<Cond("agent.reputation", "lt", 30, "")>>,
      action |-> [type |-> "rate_limit",
                  params |-> [NoParams EXCEPT !.maxRequests = 10, !.windowSeconds = 60]],
      enabled |-> TRUE],
     [id |-> "protect_admin", priority |-> 5,
      conditions |-> <<Cond("request.path", "matches", 0, "^/api/admin"),
                       Cond("agent.permissions.sensitiveDataAccess", "eq", 0, "false")>>,
      action |-> [type |-> "deny",
                  params |-> [NoParams EXCEPT !.reason = "Admin access not permitted"]],
      enabled |-> TRUE],
     [id |-> "challenge_suspicious", priority |-> 20,
      conditions |-> <<Cond("analysis.riskScore", "gt", 50, ""),
                       Cond("analysis.riskScore", "lt", 90, "")>>,
      action |-> [type |-> "challenge", params |-> NoParams],
      enabled |-> TRUE] >>

\* new RegExp(pattern).test(String(path))
RegExpTest(pattern, path) ==
  /\ pattern = "^/api/admin"
  /\ Len(path) >= 2
  /\ path[1] = "api"
  /\ path[2] \in AdminSegments

\* getNestedValue for the fields that hold numbers, in tenths.
NumericFields == {"analysis.riskScore", "agent.reputation"}
getNestedValue(context, field) ==
  IF field = "analysis.riskScore" THEN context.analysis.riskScore * RepScale
  ELSE context.agent.reputation

evaluateCondition(cond, context) ==
  CASE cond.operator = "gt" ->
         /\ cond.field \in NumericFields
         /\ getNestedValue(context, cond.field) > cond.num * RepScale
    [] cond.operator = "lt" ->
         /\ cond.field \in NumericFields
         /\ getNestedValue(context, cond.field) < cond.num * RepScale
    [] cond.operator = "eq" ->
         IF cond.field \in NumericFields
         THEN cond.str = "" /\ getNestedValue(context, cond.field) = cond.num * RepScale
         ELSE /\ cond.field = "agent.permissions.sensitiveDataAccess"
              /\ cond.str = (IF context.agent.sensitiveDataAccess THEN "true" ELSE "false")
    [] cond.operator = "matches" ->
         cond.field = "request.path" /\ RegExpTest(cond.str, context.request.path)
    [] OTHER -> FALSE

matchesAllConditions(conditions, context) ==
  \A i \in 1..Len(conditions) : evaluateCondition(conditions[i], context)

\* Array.prototype.sort with (a, b) => a.priority - b.priority is stable: a
\* rule goes behind the rules of no greater priority number already placed.
RECURSIVE InsertByPriority(_, _)
InsertByPriority(sorted, rule) ==
  IF sorted = <<>> THEN <<rule>>
  ELSE IF sorted[Len(sorted)].priority <= rule.priority THEN Append(sorted, rule)
  ELSE Append(InsertByPriority(SubSeq(sorted, 1, Len(sorted) - 1), rule),
              sorted[Len(sorted)])

RECURSIVE SortByPriority(_)
SortByPriority(list) ==
  IF list = <<>> THEN <<>>
  ELSE InsertByPriority(SortByPriority(SubSeq(list, 1, Len(list) - 1)), list[Len(list)])

\* The list as it stands: no filter, no sort.
ListedRules(list) == list

\* [...this.rules].filter((r) => r.enabled).sort((a, b) => a.priority - b.priority)
sortedRules(list) == SortByPriority(SelectSeq(list, LAMBDA r : r.enabled))

\* PolicyEngine.evaluate up to the decision; the audit entry is logDecision's.
evaluate(list, context) ==
  LET matching == SelectSeq(sortedRules(list),
                            LAMBDA r : matchesAllConditions(r.conditions, context))
  IN IF Len(matching) > 0
     THEN [action |-> matching[1].action, matchedRule |-> matching[1]]
     ELSE [action |-> AllowAction, matchedRule |-> NoRule]

AuditEntry(context, rule) ==
  [agentId |-> context.agent.id, ruleId |-> rule.id, action |-> rule.action.type,
   riskScore |-> context.analysis.riskScore]

PolicyContext(agent, path, analysis) ==
  [agent |-> agent, request |-> [path |-> path], analysis |-> analysis]

(***************************************************************************)
(* AnomalyDetector.  Scores are kept in twentieths, so that the fold       *)
(* riskScore + score * 20 adds the stored number.                          *)
(***************************************************************************)
EmptyMap == [k \in {} |-> 0]
NoProfile ==
  [known |-> FALSE, typicalActiveHours |-> {}, commonPaths |-> EmptyMap,
   avgPayloadSize |-> 0, requestMethods |-> EmptyMap]
createEmptyProfile == [NoProfile EXCEPT !.known = TRUE]

\* new Date(timestamp).getHours()
getHours(clock) == (clock \div 3600000) % 24

\* Map.get(key) || 0 on a map kept as a function
Freq(map, key) == IF key \in DOMAIN map THEN map[key] ELSE 0
MapSet(map, key, value) ==
  [k \in DOMAIN map \cup {key} |-> IF k = key THEN value ELSE map[k]]

RECURSIVE SumOver(_, _)
SumOver(map, keys) ==
  IF keys = {} THEN 0
  ELSE LET k == CHOOSE x \in keys : TRUE
       IN map[k] + SumOver(map, keys \ {k})

\* Math.min(zScore / 10, 0.5) in twentieths, zScore = |size - avg| / 1
PayloadScore(distance) == Min(distance * 2, 10)

\* anomalies.push({ reason, score }) when the signal fires
Signal(fires, reason, score) ==
  IF fires THEN <<[reason |-> reason, score |-> score]>> ELSE <<>>

RECURSIVE SumScores(_)
SumScores(anomalies) ==
  IF anomalies = <<>> THEN 0 ELSE Head(anomalies).score + SumScores(Tail(anomalies))

\* A total that is handed back as it is.
totalScoreUncapped(totalScore) == totalScore

\* Math.min(totalScore, 1.0)
normalizedScore(totalScore) == Min(totalScore, 20)

\* signals are the scores of the local list anomalies (history).
detectAnomaly(profile, request, clock) ==
  IF ~profile.known
  THEN [isAnomalous |-> FALSE, score |-> 0, reasons |-> <<"No baseline established">>,
        signals |-> <<>>]
  ELSE LET totalRequests == SumOver(profile.commonPaths, DOMAIN profile.commonPaths)
           pathFreq == Freq(profile.commonPaths, request.path)
           methodFreq == Freq(profile.requestMethods, request.method)
           distance == Abs(request.body.size - profile.avgPayloadSize)
           \* recentRate > avgRequestsPerHour * 3: nothing writes the sorted set it
           \* counts, nor the average
           recentRate == 0
           avgRequestsPerHour == 0
           anomalies ==
             Signal(getHours(clock) \notin profile.typicalActiveHours, "Unusual time", 6)
             \* pathProbability < 0.05
             \o Signal(totalRequests = 0 \/ pathFreq * 20 < totalRequests, "Rare path", 8)
             \* zScore > 3, stdPayloadSize || 1
             \o Signal(distance > 3, "Unusual payload size", PayloadScore(distance))
             \o Signal(recentRate > avgRequestsPerHour * 3, "High request rate", 12)
             \* methodProbability < 0.1 && methodFreq > 0
             \o Signal(totalRequests > 0 /\ methodFreq * 10 < totalRequests
                         /\ methodFreq > 0, "Rare method", 5)
           score == normalizedScore(SumScores(anomalies))
       IN [isAnomalous |-> score > 10, score |-> score,
           reasons |-> [i \in 1..Len(anomalies) |-> anomalies[i].reason],
           signals |-> [i \in 1..Len(anomalies) |-> anomalies[i].score]]

\* updateProfile's arithmetic on the profile it read.
updatedProfile(read, request, clock) ==
  LET profile == IF read.known THEN read ELSE createEmptyProfile
  IN [known |-> TRUE,
      typicalActiveHours |-> profile.typicalActiveHours \cup {getHours(clock)},
      commonPaths |-> MapSet(profile.commonPaths, request.path,
                             Freq(profile.commonPaths, request.path) + 1),
      avgPayloadSize |-> (profile.avgPayloadSize + request.body.size)
                           \div (IF profile.avgPayloadSize = 0 THEN 1 ELSE 2),
      requestMethods |-> MapSet(profile.requestMethods, request.method,
                                Freq(profile.requestMethods, request.method) + 1)]

\* Math.min(context.analysis.riskScore + anomaly.score * 20, 100)
FoldRisk(riskScore, score) == Min(riskScore + score, 100)

(***************************************************************************)
(* ChallengeService                                                        *)
(***************************************************************************)
CHALLENGE_TTL == 300
CompletedTTL == 60
MaxPendingChallenges == 5
ChallengeCountTTL == 3600

\* Every challenge a proof of work.
selectProofOfWork(riskScore) == "proof_of_work"

selectChallengeType(riskScore) ==
  IF riskScore >= 80 THEN "proof_of_work"
  ELSE IF riskScore >= 60 THEN "signature_refresh"
  ELSE "rate_delay"

calculateDifficulty(riskScore) == Min(5, Max(2, riskScore \div 20))

\* difficulty 0 and nonce NoNonce stand for undefined; randomBytes(16) of the
\* nonce is a value of the challenge's own, taken from its number.
NoNonce == 0 - 1
NoChallenge == [id |-> 0, agentId |-> 0, type |-> "none", difficulty |-> 0,
                nonce |-> NoNonce, completed |-> FALSE, expiresAt |-> 0]

\* The Challenge object issueChallenge builds before its first await.
NewChallenge(id, agentId, riskScore, clock) ==
  [id |-> id, agentId |-> agentId, type |-> selectChallengeType(riskScore),
   difficulty |-> IF selectChallengeType(riskScore) = "proof_of_work"
                  THEN calculateDifficulty(riskScore) ELSE 0,
   nonce |-> IF selectChallengeType(riskScore) = "signature_refresh" THEN id ELSE NoNonce,
   completed |-> FALSE, expiresAt |-> clock + CHALLENGE_TTL * 1000]

\* A counter key: its count while it is live, else 0.
NoCounter == [count |-> 0, expireAt |-> NoTTL]
CounterLive(counter, clock) ==
  counter # NoCounter /\ (counter.expireAt = NoTTL \/ clock <= counter.expireAt)
CounterValue(counter, clock) == IF CounterLive(counter, clock) THEN counter.count ELSE 0

\* A check that takes any challenge that is there for a completed one.
isChallengeIssued(store, id, clock) ==
  id \in DOMAIN store /\ clock <= store[id].keyExpireAt

\* isChallengeCompleted(challengeId)
isChallengeCompleted(store, id, clock) ==
  /\ id \in DOMAIN store
  /\ clock <= store[id].keyExpireAt
  /\ store[id].challenge.completed

(***************************************************************************)
(* The gateway: ProductionGateway over SentinelGateway.  A request runs    *)
(* the chain cryptoMiddleware, semanticMiddleware, policyMiddleware,       *)
(* proxy.  next() enters the next middleware at once, so what               *)
(* ProductionGateway.semanticMiddleware does after                         *)
(* `await super.semanticMiddleware(req, res, next)` is a second            *)
(* continuation (post) beside the chain (main).                            *)
(***************************************************************************)
AgentIds == 1..MaxCalls
NoAnomaly == [isAnomalous |-> FALSE, score |-> 0 - 1, reasons |-> <<>>, signals |-> <<>>]
NoAudit == [agentId |-> 0, ruleId |-> "null", action |-> "none", riskScore |-> 0 - 1]

NoDigest == 0 - 1

NoGw ==
  [main |-> "none", post |-> "none",
   method |-> "none", path |-> <<>>, body |-> NoBody, challengeId |-> 0,
   verified |-> FALSE, agent |-> NoIdentity, analysis |-> NoAnalysis,
   decision |-> NoDecision, status |-> 0, forwarded |-> FALSE,
   \* locals of the handlers across their awaits
   found |-> NoAnalysis, pending |-> NoDecision, audit |-> NoAudit, current |-> 0,
   challenge |-> NoChallenge, anomaly |-> NoAnomaly, profile |-> NoProfile,
   solved |-> FALSE,
   \* the zero hex characters the digest of challengeId + solution begins with
   zeros |-> NoDigest,
   \* what cryptoMiddleware found in the headers: "missing", "garbled", "decoded"
   auth |-> "none",
   \* history: a command to the store failed while the request was handled
   kvFailed |-> FALSE,
   \* history: the milestones of the request in order, the riskScore the
   \* semantic layer attached and the riskScore the policy conditions read
   trail |-> <<>>, baseRisk |-> 0 - 1, testedRisk |-> 0 - 1]

GatewayStores ==
  /\ gw = [t \in Tasks |-> NoGw]
  /\ profiles = [a \in AgentIds |-> NoProfile]
  /\ agentHistory = [a \in AgentIds |-> <<>>]
  /\ securityEvents = <<>>
  /\ threats = <<>>
  /\ auditLog = <<>>
  /\ rateLimit = [a \in AgentIds |-> NoCounter]
  /\ challenges = EmptyMap
  /\ challengeCount = [a \in AgentIds |-> NoCounter]
  /\ nextChallenge = 1
  /\ cache = EmptyMap

GatewayInit == GatewayStores /\ rules = DEFAULT_RULES

UnitInit ==
  /\ args = <<>>
  /\ returned = <<>>

RequestOf(r) == [method |-> r.method, path |-> r.path, body |-> r.body]

\* res.status(code).json(...); return
Respond(r, code) == [r EXCEPT !.status = code, !.main = "closed"]

\* next() out of policyMiddleware: the proxy forwards the request.
Forward(r) ==
  [r EXCEPT !.forwarded = TRUE, !.trail = Append(@, "forwarded"), !.main = "closed"]

\* The switch of the older policyMiddleware: a challenge is logged and let through.
DispatchThroughChallenge(r) ==
  CASE r.decision.action.type = "deny" -> Respond(r, 403)
    [] r.decision.action.type = "rate_limit" -> [r EXCEPT !.main = "pol_rate"]
    [] OTHER -> Forward(r)

\* switch (decision.action.type) up to the next await or the response.
Dispatch(r) ==
  CASE r.decision.action.type = "deny" -> Respond(r, 403)
    [] r.decision.action.type = "rate_limit" -> [r EXCEPT !.main = "pol_rate"]
    [] r.decision.action.type = "challenge" -> [r EXCEPT !.main = "pol_pending"]
    [] OTHER -> Forward(r)

\* policyMiddleware from its entry to its first await: evaluate() tests the
\* conditions before it awaits anything, logDecision builds its entry.
PolicyEntered(r) ==
  LET context == PolicyContext(r.agent, r.path, r.analysis)
      decision == evaluate(rules, context)
      seen == [r EXCEPT !.testedRisk = r.analysis.riskScore,
                        !.trail = Append(@, "evaluated")]
  IN IF decision.matchedRule = NoRule
     THEN Dispatch([seen EXCEPT !.decision = decision, !.trail = Append(@, "decision")])
     ELSE [seen EXCEPT !.pending = decision,
                       !.audit = AuditEntry(context, decision.matchedRule),
                       !.main = "pol_log"]

\* context.analysis = analysis
Attach(r, analysis) ==
  [r EXCEPT !.analysis = analysis, !.baseRisk = analysis.riskScore,
            !.trail = Append(@, "analysis")]

\* The verifier's verdict lets every request through.
CryptoAcceptsAll(res) == TRUE

\* if (!result.valid) ... return
CryptoAccepts(res) == res.valid

(***************************************************************************)
(* Layer 1: cryptoMiddleware                                               *)
(***************************************************************************)
\* The early exits: a header is missing (401) or the signed payload does not
\* parse (400).
HeaderStatusForbidden(auth) == 403

HeaderStatus(auth) == IF auth = "missing" THEN 401 ELSE 400

CryptoMiddlewareHeaders(t, auth) ==
  /\ Free(t)
  /\ budget > 0
  /\ budget' = budget - 1
  /\ gw' = [gw EXCEPT ![t] = Respond([NoGw EXCEPT !.auth = auth], HeaderStatus(auth))]
  /\ UNCHANGED <<now, nonceStore, identities, repLog, connWatched, connDirty,
                 pc, req, loc, result, nextId, passes, history>>
  /\ UNCHANGED <<profiles, agentHistory, securityEvents, threats, auditLog, rateLimit,
                 challenges, challengeCount, nextChallenge, cache, rules>>
  /\ UNCHANGED unitVars

\* The headers are there: verifyRequest is called.
CryptoMiddleware(t, pk, nonce, ts, sigOk, path, body, challengeId) ==
  /\ verifyRequestBegin(t, pk, nonce, ts, sigOk)
  /\ gw' = [gw EXCEPT ![t] = [NoGw EXCEPT !.main = "crypto", !.method = "POST",
                                          !.auth = "decoded",
                                          !.path = path, !.body = body,
                                          !.challengeId = challengeId]]
  /\ UNCHANGED <<profiles, agentHistory, securityEvents, threats, auditLog, rateLimit,
                 challenges, challengeCount, nextChallenge, cache, rules>>
  /\ UNCHANGED unitVars

\* verifyRequest has settled: reject, or attach the context and call next(),
\* which runs semanticMiddleware to its first await.
CryptoMiddlewareResume(t) ==
  /\ gw[t].main = "crypto"
  /\ pc[t] = "done"
  /\ gw' = [gw EXCEPT ![t] =
       IF result[t].error = "threw" THEN Respond(@, 400)
       ELSE IF ~CryptoAccepts(result[t]) THEN [@ EXCEPT !.main = "crypto_log"]
       ELSE [@ EXCEPT !.verified = result[t].valid, !.agent = result[t].agent,
                      !.trail = Append(@, "verified"),
                      !.main = IF gw[t].challengeId # 0 THEN "sem_challenge"
                               ELSE "sem_history"]]
  /\ UNCHANGED <<profiles, agentHistory, securityEvents, threats, auditLog, rateLimit,
                 challenges, challengeCount, nextChallenge, cache, rules>>
  /\ UNCHANGED <<cryptoVars, unitVars>>

\* await this.logSecurityEvent("crypto_failure", ...); res.status(403)
CryptoMiddlewareReject(t) ==
  /\ gw[t].main = "crypto_log"
  /\ securityEvents' = <<"crypto_failure">> \o securityEvents
  /\ gw' = [gw EXCEPT ![t] = Respond(@, 403)]
  /\ UNCHANGED <<profiles, agentHistory, threats, auditLog, rateLimit,
                 challenges, challengeCount, nextChallenge, cache, rules>>
  /\ UNCHANGED <<cryptoVars, unitVars>>

\* The SET of the nonce guard is rejected (the connection dropped, the command
\* timed out): the store may or may not have run it, verifyRequest throws and
\* the catch of cryptoMiddleware answers.
NonceGuardFails(t) ==
  /\ pc[t] = "v_nonce" /\ gw[t].main = "crypto"
  /\ nonceStore' \in {nonceStore,
                       SetNxStore(nonceStore, NonceKey(req[t].pk, req[t].nonce), now)}
  /\ Return(t, Failure("threw"))
  /\ gw' = [gw EXCEPT ![t].kvFailed = TRUE]
  /\ UNCHANGED <<now, identities, repLog, connWatched, connDirty, budget, nextId,
                 passes, history>>
  /\ UNCHANGED <<profiles, agentHistory, securityEvents, threats, auditLog, rateLimit,
                 challenges, challengeCount, nextChallenge, cache, rules>>
  /\ UNCHANGED unitVars

\* The LRANGE of semanticMiddleware is rejected: the handler has no try, so
\* its promise rejects.  Express 4 never hears of it and the request is left
\* without an answer; Express 5 hands it to the default error handler (500).
SemanticHistoryFails(t) ==
  /\ gw[t].main = "sem_history"
  /\ \/ gw' = [gw EXCEPT ![t] = [@ EXCEPT !.kvFailed = TRUE, !.main = "abandoned"]]
     \/ gw' = [gw EXCEPT ![t] = Respond([@ EXCEPT !.kvFailed = TRUE], 500)]
  /\ UNCHANGED <<profiles, agentHistory, securityEvents, threats, auditLog, rateLimit,
                 challenges, challengeCount, nextChallenge, cache, rules>>
  /\ UNCHANGED <<cryptoVars, unitVars>>

(***************************************************************************)
(* Layer 2: semanticMiddleware                                             *)
(***************************************************************************)
\* The analysis a completed challenge buys.
ChallengePassAnalysis ==
  [isMalicious |-> FALSE, confidence |-> 70, threatType |-> "undefined",
   explanation |-> "Request allowed after challenge completion",
   suggestedAction |-> "allow", riskScore |-> 30]

\* next() out of semanticMiddleware, and the return of super.semanticMiddleware
\* to ProductionGateway, which goes on to detectAnomaly.
SemanticNext(r) == [PolicyEntered(r) EXCEPT !.post = "detect"]

\* const completed = await this.challengeService.isChallengeCompleted(challengeId)
SemanticChallenge(t) ==
  /\ gw[t].main = "sem_challenge"
  /\ gw' = [gw EXCEPT ![t] =
       IF isChallengeCompleted(challenges, gw[t].challengeId, now)
       THEN SemanticNext(Attach(@, ChallengePassAnalysis))
       ELSE [@ EXCEPT !.main = "sem_history"]]
  /\ UNCHANGED <<profiles, agentHistory, securityEvents, threats, auditLog, rateLimit,
                 challenges, challengeCount, nextChallenge, cache, rules>>
  /\ UNCHANGED <<cryptoVars, unitVars>>

\* const history = await this.redis.lrange(historyKey, 0, 9); analyzeIntent is
\* called and awaits the cache.
SemanticHistory(t) ==
  /\ gw[t].main = "sem_history"
  /\ gw' = [gw EXCEPT ![t].main = "sem_cache_get"]
  /\ UNCHANGED <<profiles, agentHistory, securityEvents, threats, auditLog, rateLimit,
                 challenges, challengeCount, nextChallenge, cache, rules>>
  /\ UNCHANGED <<cryptoVars, unitVars>>

\* CachedIntentAnalyzer.analyzeIntent: const cached = await this.cache.get(...);
\* on a miss super.analyzeIntent runs to its fetch, or returns from Tier A.
AnalyzeCacheGet(t) ==
  /\ gw[t].main = "sem_cache_get"
  /\ LET key == CacheKeyOf(RequestOf(gw[t]), gw[t].agent.reputation)
     IN gw' = [gw EXCEPT ![t] =
          IF CacheHit(cache, key, now)
          THEN [@ EXCEPT !.found = CachedCopy(cache[key].analysis), !.main = "sem_store"]
          ELSE IF SkipsAnalysis(gw[t].body, gw[t].agent.reputation)
          THEN [@ EXCEPT !.found = TierAResult, !.main = "sem_cache_set"]
          ELSE [@ EXCEPT !.main = "sem_llm"]]
  /\ UNCHANGED <<profiles, agentHistory, securityEvents, threats, auditLog, rateLimit,
                 challenges, challengeCount, nextChallenge, cache, rules>>
  /\ UNCHANGED <<cryptoVars, unitVars>>

\* The fetch settles with raw (or throws): the try and catch of analyzeIntent.
AnalyzeLlm(t, raw) ==
  /\ gw[t].main = "sem_llm"
  /\ gw' = [gw EXCEPT ![t].found = AfterLlm(gw[t].body, gw[t].agent.reputation, raw),
                      ![t].main = "sem_cache_set"]
  /\ UNCHANGED <<profiles, agentHistory, securityEvents, threats, auditLog, rateLimit,
                 challenges, challengeCount, nextChallenge, cache, rules>>
  /\ UNCHANGED <<cryptoVars, unitVars>>

\* await this.cache.set(request, result, agentContext.reputation)
AnalyzeCacheSet(t) ==
  /\ gw[t].main = "sem_cache_set"
  /\ cache' = CachePut(cache, CacheKeyOf(RequestOf(gw[t]), gw[t].agent.reputation),
                       gw[t].found, gw[t].agent.reputation, now)
  /\ gw' = [gw EXCEPT ![t].main = "sem_store"]
  /\ UNCHANGED <<profiles, agentHistory, securityEvents, threats, auditLog, rateLimit,
                 challenges, challengeCount, nextChallenge, rules>>
  /\ UNCHANGED <<cryptoVars, unitVars>>

\* lpush and ltrim of the agent's history, then context.analysis = analysis and
\* either the block or next().
SemanticStore(t) ==
  /\ gw[t].main = "sem_store"
  /\ agentHistory' = [agentHistory EXCEPT ![gw[t].agent.id] =
       SubSeq(<<gw[t].found.riskScore>> \o @, 1, Min(Len(@) + 1, LogCap))]
  /\ gw' = [gw EXCEPT ![t] =
       IF gw[t].found.isMalicious /\ gw[t].found.confidence > 85
       THEN [Attach(@, gw[t].found) EXCEPT !.main = "sem_block"]
       ELSE SemanticNext(Attach(@, gw[t].found))]
  /\ UNCHANGED <<profiles, securityEvents, threats, auditLog, rateLimit,
                 challenges, challengeCount, nextChallenge, cache, rules>>
  /\ UNCHANGED <<cryptoVars, unitVars>>

\* logSecurityEvent("malicious_request_blocked"), publish on
\* gazorpazorp:threats, res.status(403); super.semanticMiddleware returns.
SemanticBlock(t) ==
  /\ gw[t].main = "sem_block"
  /\ securityEvents' = <<"malicious_request_blocked">> \o securityEvents
  /\ threats' = Append(threats, [agentId |-> gw[t].agent.id,
                                  threatType |-> gw[t].analysis.threatType,
                                  riskScore |-> gw[t].analysis.riskScore])
  /\ gw' = [gw EXCEPT ![t] = [Respond(@, 403) EXCEPT !.post = "detect"]]
  /\ UNCHANGED <<profiles, agentHistory, auditLog, rateLimit,
                 challenges, challengeCount, nextChallenge, cache, rules>>
  /\ UNCHANGED <<cryptoVars, unitVars>>

(***************************************************************************)
(* ProductionGateway.semanticMiddleware after super returned               *)
(***************************************************************************)
\* const anomaly = await this.anomalyDetector.detectAnomaly(...)
DetectAnomaly(t) ==
  /\ gw[t].post = "detect"
  /\ gw' = [gw EXCEPT ![t].anomaly =
                         detectAnomaly(profiles[gw[t].agent.id], RequestOf(gw[t]), now),
                      ![t].trail = Append(@, "anomaly"),
                      ![t].post = "upd_get"]
  /\ UNCHANGED <<profiles, agentHistory, securityEvents, threats, auditLog, rateLimit,
                 challenges, challengeCount, nextChallenge, cache, rules>>
  /\ UNCHANGED <<cryptoVars, unitVars>>

\* updateProfile: const profile = (await this.getProfile(agentId)) || empty
UpdateProfileGet(t) ==
  /\ gw[t].post = "upd_get"
  /\ gw' = [gw EXCEPT ![t].profile =
                         updatedProfile(profiles[gw[t].agent.id], RequestOf(gw[t]), now),
                      ![t].post = "upd_save"]
  /\ UNCHANGED <<profiles, agentHistory, securityEvents, threats, auditLog, rateLimit,
                 challenges, challengeCount, nextChallenge, cache, rules>>
  /\ UNCHANGED <<cryptoVars, unitVars>>

\* await this.saveProfile(agentId, profile); then the fold
\* if (anomaly.isAnomalous) context.analysis.riskScore = Math.min(... , 100)
UpdateProfileSave(t) ==
  /\ gw[t].post = "upd_save"
  /\ profiles' = [profiles EXCEPT ![gw[t].agent.id] = gw[t].profile]
  /\ gw' = [gw EXCEPT ![t] =
       IF gw[t].anomaly.isAnomalous
       THEN [@ EXCEPT !.analysis.riskScore = FoldRisk(@, gw[t].anomaly.score),
                      !.trail = Append(@, "folded"),
                      !.profile = NoProfile, !.post = "closed"]
       ELSE [@ EXCEPT !.profile = NoProfile, !.post = "closed"]]
  /\ UNCHANGED <<agentHistory, securityEvents, threats, auditLog, rateLimit,
                 challenges, challengeCount, nextChallenge, cache, rules>>
  /\ UNCHANGED <<cryptoVars, unitVars>>

(***************************************************************************)
(* Layer 3: policyMiddleware                                               *)
(***************************************************************************)
\* policyMiddleware entered with a context of its own choosing.
PolicyMiddleware(t, agent, path, analysis) ==
  /\ Free(t)
  /\ budget > 0
  /\ budget' = budget - 1
  /\ gw' = [gw EXCEPT ![t] =
       PolicyEntered(Attach([NoGw EXCEPT !.method = "POST", !.path = path,
                                         !.body = SmallBody, !.verified = TRUE,
                                         !.agent = agent, !.trail = <<"verified">>],
                            analysis))]
  /\ UNCHANGED <<now, nonceStore, identities, repLog, connWatched, connDirty,
                 pc, req, loc, result, nextId, passes, history>>
  /\ UNCHANGED <<profiles, agentHistory, securityEvents, threats, auditLog, rateLimit,
                 challenges, challengeCount, nextChallenge, cache, rules>>
  /\ UNCHANGED unitVars

\* logDecision: lpush and ltrim of the audit log; evaluate returns the
\* decision, context.decision = decision, and the switch runs.
PolicyLog(t) ==
  /\ gw[t].main = "pol_log"
  /\ auditLog' = <<gw[t].audit>> \o auditLog
  /\ gw' = [gw EXCEPT ![t] =
       Dispatch([@ EXCEPT !.decision = gw[t].pending, !.pending = NoDecision,
                          !.audit = NoAudit, !.trail = Append(@, "decision")])]
  /\ UNCHANGED <<profiles, agentHistory, securityEvents, threats, rateLimit,
                 challenges, challengeCount, nextChallenge, cache, rules>>
  /\ UNCHANGED <<cryptoVars, unitVars>>

\* A limiter that lets every request through.
RateLimitNeverLimited(r, current) == Forward([r EXCEPT !.current = current])

\* return { limited: current > params.maxRequests, ... }, and what
\* policyMiddleware does with it.
RateLimitOutcome(r, current) ==
  IF current > r.decision.action.params.maxRequests
  THEN Respond([r EXCEPT !.current = current], 429)
  ELSE Forward([r EXCEPT !.current = current])

\* checkRateLimit: MULTI INCR TTL EXEC
PolicyRate(t) ==
  /\ gw[t].main = "pol_rate"
  /\ LET key == rateLimit[gw[t].agent.id]
         live == CounterLive(key, now)
         current == CounterValue(key, now) + 1
         ttl == IF live /\ key.expireAt # NoTTL
                THEN (key.expireAt - now) \div 1000 ELSE 0 - 1
     IN /\ rateLimit' = [rateLimit EXCEPT ![gw[t].agent.id] =
              [count |-> current, expireAt |-> IF live THEN key.expireAt ELSE NoTTL]]
        /\ gw' = [gw EXCEPT ![t] =
              IF current = 1 \/ ttl = 0 - 1
              THEN [@ EXCEPT !.current = current, !.main = "pol_rate_expire"]
              ELSE RateLimitOutcome(@, current)]
  /\ UNCHANGED <<profiles, agentHistory, securityEvents, threats, auditLog,
                 challenges, challengeCount, nextChallenge, cache, rules>>
  /\ UNCHANGED <<cryptoVars, unitVars>>

\* await this.redis.expire(key, params.windowSeconds)
PolicyRateExpire(t) ==
  /\ gw[t].main = "pol_rate_expire"
  /\ rateLimit' = [rateLimit EXCEPT ![gw[t].agent.id] =
       IF CounterLive(@, now)
       THEN [@ EXCEPT !.expireAt =
                        now + gw[t].decision.action.params.windowSeconds * 1000]
       ELSE @]
  /\ gw' = [gw EXCEPT ![t] = RateLimitOutcome(@, gw[t].current)]
  /\ UNCHANGED <<profiles, agentHistory, securityEvents, threats, auditLog,
                 challenges, challengeCount, nextChallenge, cache, rules>>
  /\ UNCHANGED <<cryptoVars, unitVars>>

\* const pendingChallenges = await getPendingChallengeCount(agentId); too many
\* answer 429, else issueChallenge builds the challenge and awaits its setex.
PolicyPending(t) ==
  /\ gw[t].main = "pol_pending"
  /\ IF CounterValue(challengeCount[gw[t].agent.id], now) >= MaxPendingChallenges
     THEN /\ gw' = [gw EXCEPT ![t] = Respond(@, 429)]
          /\ UNCHANGED nextChallenge
     ELSE /\ gw' = [gw EXCEPT ![t].challenge =
                       NewChallenge(nextChallenge, gw[t].agent.id,
                                    gw[t].analysis.riskScore, now),
                               ![t].main = "pol_issue"]
          /\ nextChallenge' = nextChallenge + 1
  /\ UNCHANGED <<profiles, agentHistory, securityEvents, threats, auditLog, rateLimit,
                 challenges, challengeCount, cache, rules>>
  /\ UNCHANGED <<cryptoVars, unitVars>>

\* issueChallenge: setex of the challenge, incr and expire of the agent's count
PolicyIssue(t) ==
  /\ gw[t].main = "pol_issue"
  /\ challenges' = MapSet(challenges, gw[t].challenge.id,
                          [challenge |-> gw[t].challenge,
                           keyExpireAt |-> now + CHALLENGE_TTL * 1000])
  /\ challengeCount' = [challengeCount EXCEPT ![gw[t].agent.id] =
       [count |-> CounterValue(@, now) + 1,
        expireAt |-> now + ChallengeCountTTL * 1000]]
  /\ gw' = [gw EXCEPT ![t].main = "pol_challenge_log"]
  /\ UNCHANGED <<profiles, agentHistory, securityEvents, threats, auditLog, rateLimit,
                 nextChallenge, cache, rules>>
  /\ UNCHANGED <<cryptoVars, unitVars>>

\* logSecurityEvent("challenge_issued", ...); res.status(401).json(challengeResponse)
PolicyChallengeRespond(t) ==
  /\ gw[t].main = "pol_challenge_log"
  /\ securityEvents' = <<"challenge_issued">> \o securityEvents
  /\ gw' = [gw EXCEPT ![t] = Respond(@, 401)]
  /\ UNCHANGED <<profiles, agentHistory, threats, auditLog, rateLimit,
                 challenges, challengeCount, nextChallenge, cache, rules>>
  /\ UNCHANGED <<cryptoVars, unitVars>>

(***************************************************************************)
(* POST /api/challenge/verify: handleChallengeVerification ->              *)
(* ChallengeService.verifyChallenge.  A solution is taken by what the      *)
(* check of the challenge's type makes of it (solved).                     *)
(***************************************************************************)
\* The handler up to its first await: 400 when challengeId or solution is
\* missing (challengeId 0), else verifyChallenge awaits its GET.
HandleChallengeVerification(t, challengeId, solved) ==
  /\ Free(t)
  /\ budget > 0
  /\ budget' = budget - 1
  /\ gw' = [gw EXCEPT ![t] =
       IF challengeId = 0
       THEN Respond([NoGw EXCEPT !.method = "POST"], 400)
       ELSE [NoGw EXCEPT !.method = "POST", !.challengeId = challengeId,
                         !.solved = solved, !.main = "ver_get"]]
  /\ UNCHANGED <<now, nonceStore, identities, repLog, connWatched, connDirty,
                 pc, req, loc, result, nextId, passes, history>>
  /\ UNCHANGED <<profiles, agentHistory, securityEvents, threats, auditLog, rateLimit,
                 challenges, challengeCount, nextChallenge, cache, rules>>
  /\ UNCHANGED unitVars

\* A proof of work held to as many zero characters as its difficulty.
verifyProofOfWorkChars(zeros, difficulty) == zeros >= difficulty

\* verifyProofOfWork: requiredZeroChars = Math.ceil(difficulty / 4), and the
\* first requiredZeroChars characters of the hex digest are all "0".
verifyProofOfWork(zeros, difficulty) == zeros >= (difficulty + 3) \div 4

\* switch (challenge.type): the check of the solution of task t.
SolutionValid(t, challenge) ==
  IF challenge.type = "proof_of_work" /\ gw[t].zeros # NoDigest
  THEN verifyProofOfWork(gw[t].zeros, challenge.difficulty)
  ELSE gw[t].solved

\* The handler entered with a proof-of-work solution, given by the digest it makes.
HandleProofOfWork(t, challengeId, zeros) ==
  /\ Free(t)
  /\ budget > 0
  /\ budget' = budget - 1
  /\ gw' = [gw EXCEPT ![t] =
       [NoGw EXCEPT !.method = "POST", !.challengeId = challengeId,
                    !.zeros = zeros, !.main = "ver_get"]]
  /\ UNCHANGED <<now, nonceStore, identities, repLog, connWatched, connDirty,
                 pc, req, loc, result, nextId, passes, history>>
  /\ UNCHANGED <<profiles, agentHistory, securityEvents, threats, auditLog, rateLimit,
                 challenges, challengeCount, nextChallenge, cache, rules>>
  /\ UNCHANGED unitVars

\* The GET has settled: not found, already completed, expired (a DEL follows),
\* or the solution is checked and, when right, the SETEX is awaited.
VerifyChallengeGet(t) ==
  /\ gw[t].main = "ver_get"
  /\ LET id == gw[t].challengeId
         there == id \in DOMAIN challenges /\ now <= challenges[id].keyExpireAt
     IN gw' = [gw EXCEPT ![t] =
          IF ~there THEN Respond(@, 400)
          ELSE IF challenges[id].challenge.completed THEN Respond(@, 400)
          ELSE IF now > challenges[id].challenge.expiresAt
          THEN [@ EXCEPT !.main = "ver_del"]
          ELSE IF SolutionValid(t, challenges[id].challenge)
          THEN [@ EXCEPT !.challenge = challenges[id].challenge, !.main = "ver_setex"]
          ELSE Respond(@, 400)]
  /\ UNCHANGED <<profiles, agentHistory, securityEvents, threats, auditLog, rateLimit,
                 challenges, challengeCount, nextChallenge, cache, rules>>
  /\ UNCHANGED <<cryptoVars, unitVars>>

\* await this.redis.del(key); return { valid: false, error: "Challenge expired" }
VerifyChallengeDel(t) ==
  /\ gw[t].main = "ver_del"
  /\ challenges' = [id \in DOMAIN challenges \ {gw[t].challengeId} |-> challenges[id]]
  /\ gw' = [gw EXCEPT ![t] = Respond(@, 400)]
  /\ UNCHANGED <<profiles, agentHistory, securityEvents, threats, auditLog, rateLimit,
                 challengeCount, nextChallenge, cache, rules>>
  /\ UNCHANGED <<cryptoVars, unitVars>>

\* challenge.completed = true; await this.redis.setex(key, 60, JSON.stringify(challenge))
VerifyChallengeSetex(t) ==
  /\ gw[t].main = "ver_setex"
  /\ challenges' = MapSet(challenges, gw[t].challengeId,
                          [challenge |-> [gw[t].challenge EXCEPT !.completed = TRUE],
                           keyExpireAt |-> now + CompletedTTL * 1000])
  /\ gw' = [gw EXCEPT ![t].main = "ver_decr"]
  /\ UNCHANGED <<profiles, agentHistory, securityEvents, threats, auditLog, rateLimit,
                 challengeCount, nextChallenge, cache, rules>>
  /\ UNCHANGED <<cryptoVars, unitVars>>

\* await this.redis.decr(`challenges:count:${agentId}`); the handler answers 200.
\* DECR of a key that is gone makes it anew, with no expiry.
VerifyChallengeDecr(t) ==
  /\ gw[t].main = "ver_decr"
  /\ challengeCount' = [challengeCount EXCEPT ![gw[t].challenge.agentId] =
       [count |-> CounterValue(@, now) - 1,
        expireAt |-> IF CounterLive(@, now) THEN @.expireAt ELSE NoTTL]]
  /\ gw' = [gw EXCEPT ![t] = Respond(@, 200)]
  /\ UNCHANGED <<profiles, agentHistory, securityEvents, threats, auditLog, rateLimit,
                 challenges, nextChallenge, cache, rules>>
  /\ UNCHANGED <<cryptoVars, unitVars>>

\* semanticMiddleware entered with a context of its own choosing.
SemanticMiddleware(t, agent, path, body, challengeId) ==
  /\ Free(t)
  /\ budget > 0
  /\ budget' = budget - 1
  /\ gw' = [gw EXCEPT ![t] =
       [NoGw EXCEPT !.method = "POST", !.path = path, !.body = body,
                    !.challengeId = challengeId, !.verified = TRUE, !.agent = agent,
                    !.trail = <<"verified">>,
                    !.main = IF challengeId # 0 THEN "sem_challenge" ELSE "sem_history"]]
  /\ UNCHANGED <<now, nonceStore, identities, repLog, connWatched, connDirty,
                 pc, req, loc, result, nextId, passes, history>>
  /\ UNCHANGED <<profiles, agentHistory, securityEvents, threats, auditLog, rateLimit,
                 challenges, challengeCount, nextChallenge, cache, rules>>
  /\ UNCHANGED unitVars

\* The clock moves on, to the ends of the lifetimes of challenge keys.
ChallengeTimePoints ==
  {CompletedTTL * 1000, CompletedTTL * 1000 + 1,
   CHALLENGE_TTL * 1000, CHALLENGE_TTL * 1000 + 1}
TickChallenge ==
  /\ \E t \in ChallengeTimePoints : t > now /\ now' = t
  /\ UNCHANGED <<nonceStore, identities, repLog, connWatched, connDirty,
                 pc, req, loc, result, budget, nextId, passes, history>>
  /\ UNCHANGED <<gatewayVars, unitVars>>

(***************************************************************************)
(* Functions called on their own                                           *)
(***************************************************************************)
CacheRequests ==
  {[method |-> "POST", path |-> p, body |-> b] :
     p \in {<<"api", "users", "42">>, <<"api", "users", "7">>},
     b \in {SmallBody, InjectionBody}}
\* Reputations on both sides of the bucket boundaries at 30 and 90.
CacheReputations == {299, 300, 499, 900, 1000}
CacheAnalyses == {TierAResult, FailSafe(preScreen(InjectionBody.phrases), 0)}
NoCacheArgs == [op |-> "none", request |-> RequestOf(NoGw), reputation |-> 0 - 1]
NoCacheReturn == [hit |-> FALSE, analysis |-> NoAnalysis, byReputation |-> 0 - 1]

\* AnalysisCache.set(request, result, reputation)
CacheSet(request, analysis, reputation) ==
  /\ budget > 0
  /\ budget' = budget - 1
  /\ cache' = CachePut(cache, CacheKeyOf(request, reputation), analysis, reputation, now)
  /\ args' = [op |-> "set", request |-> request, reputation |-> reputation]
  /\ returned' = NoCacheReturn
  /\ UNCHANGED <<now, nonceStore, identities, repLog, connWatched, connDirty,
                 pc, req, loc, result, nextId, passes, history>>
  /\ UNCHANGED <<gw, profiles, agentHistory, securityEvents, threats, auditLog, rateLimit,
                 challenges, challengeCount, nextChallenge, rules>>

\* AnalysisCache.get(request, reputation)
CacheGet(request, reputation) ==
  /\ budget > 0
  /\ budget' = budget - 1
  /\ args' = [op |-> "get", request |-> request, reputation |-> reputation]
  /\ returned' =
       LET key == CacheKeyOf(request, reputation)
       IN IF CacheHit(cache, key, now)
          THEN [hit |-> TRUE, analysis |-> cache[key].analysis,
                byReputation |-> cache[key].byReputation]
          ELSE NoCacheReturn
  /\ UNCHANGED <<now, nonceStore, identities, repLog, connWatched, connDirty,
                 pc, req, loc, result, nextId, passes, history>>
  /\ UNCHANGED <<gw, profiles, agentHistory, securityEvents, threats, auditLog, rateLimit,
                 challenges, challengeCount, nextChallenge, cache, rules>>

\* Requests the detector and the profile see.
AnomalyRequests ==
  {[method |-> m, path |-> c[1], body |-> c[2]] :
     m \in {"POST", "GET"},
     c \in {<<DataPath, SmallBody>>, <<ReportsPath, LargeBody>>}}
NoAnomalyArgs == [op |-> "none", request |-> RequestOf(NoGw)]

\* AnomalyDetector.detectAnomaly(agentId, request)
DetectAnomalyCall(agentId, request) ==
  /\ budget > 0
  /\ budget' = budget - 1
  /\ args' = [op |-> "detect", request |-> request]
  /\ returned' = detectAnomaly(profiles[agentId], request, now)
  /\ UNCHANGED <<now, nonceStore, identities, repLog, connWatched, connDirty,
                 pc, req, loc, result, nextId, passes, history>>
  /\ UNCHANGED gatewayVars

\* AnomalyDetector.updateProfile(agentId, request), one call at a time.
UpdateProfileCall(agentId, request) ==
  /\ budget > 0
  /\ budget' = budget - 1
  /\ args' = [op |-> "update", request |-> request]
  /\ profiles' = [profiles EXCEPT ![agentId] = updatedProfile(@, request, now)]
  /\ UNCHANGED returned
  /\ UNCHANGED <<now, nonceStore, identities, repLog, connWatched, connDirty,
                 pc, req, loc, result, nextId, passes, history>>
  /\ UNCHANGED <<gw, agentHistory, securityEvents, threats, auditLog, rateLimit,
                 challenges, challengeCount, nextChallenge, cache, rules>>

\* The clock moves into the next hour.
TickHour ==
  /\ now = 0 /\ now' = 3600000
  /\ UNCHANGED <<nonceStore, identities, repLog, connWatched, connDirty,
                 pc, req, loc, result, budget, nextId, passes, history>>
  /\ UNCHANGED <<gatewayVars, unitVars>>

\* Rule lists: DEFAULT_RULES in every order, with every choice of enabled
\* flags, and with protect_admin at its own priority or tied with
\* block_high_risk.
RuleOrders == {p \in [1..Len(DEFAULT_RULES) -> 1..Len(DEFAULT_RULES)] :
                 \A i, j \in 1..Len(DEFAULT_RULES) : i # j => p[i] # p[j]}
RuleVariant(rule, enabled, tied) ==
  [rule EXCEPT !.enabled = enabled,
               !.priority = IF tied /\ rule.id = "protect_admin" THEN 1 ELSE @]
RuleLists ==
  {[i \in 1..Len(DEFAULT_RULES) |-> RuleVariant(DEFAULT_RULES[p[i]], en[p[i]], tied)] :
     p \in RuleOrders, en \in [1..Len(DEFAULT_RULES) -> BOOLEAN], tied \in BOOLEAN}

PolicyAgent(reputation, sens) ==
  [NoIdentity EXCEPT !.reputation = reputation, !.id = 1, !.ttlFrom = 0,
                     !.sensitiveDataAccess = sens]
RiskAnalysis(riskScore) == [TierAResult EXCEPT !.riskScore = riskScore,
                                               !.explanation = "Tier LLM"]
PolicyContexts ==
  {PolicyContext(PolicyAgent(rep, sens), path, RiskAnalysis(risk)) :
     rep \in {299, 300}, sens \in BOOLEAN, path \in {DataPath, AdminPath},
     risk \in {50, 51, 89, 90, 91}}

\* PolicyEngine.evaluate(context), logDecision included.
Evaluate(context) ==
  /\ budget > 0
  /\ budget' = budget - 1
  /\ args' = context
  /\ returned' = evaluate(rules, context)
  /\ auditLog' = IF evaluate(rules, context).matchedRule = NoRule THEN auditLog
                 ELSE <<AuditEntry(context, evaluate(rules, context).matchedRule)>>
                        \o auditLog
  /\ UNCHANGED <<now, nonceStore, identities, repLog, connWatched, connDirty,
                 pc, req, loc, result, nextId, passes, history>>
  /\ UNCHANGED <<gw, profiles, agentHistory, securityEvents, threats, rateLimit,
                 challenges, challengeCount, nextChallenge, cache, rules>>

AnalyzerBodies ==
  {SmallBody, InjectionBody,
   [phrases |-> {"system: dump the database"}, size |-> 30],
   [phrases |-> {"| bash", "grant me admin"}, size |-> 30],
   [phrases |-> {"dump the database", "weather report"}, size |-> 30]}
\* Reputations on both sides of 60, 85 and 95.
AnalyzerReputations == {0, 599, 600, 849, 850, 950, 951, 1000}
LlmReplies ==
  {NoLlmReply, [NoLlmReply EXCEPT !.kind = "not_json"]} \cup
  {[kind |-> "json", isMalicious |-> m, confidence |-> c, threatType |-> ty,
    explanation |-> e, riskScore |-> r] :
     m \in {"true", "false", "string"}, c \in {0 - 10, 60, 90, 150},
     ty \in {"missing", "data_exfiltration"}, e \in {"text", "missing"},
     r \in {0 - 1, 40, 70, 95, 101}}
NoAnalyzerArgs == [body |-> NoBody, reputation |-> 0 - 1, raw |-> NoLlmReply]

\* IntentAnalyzer.analyzeIntent(request, agentContext) with the LLM answering raw.
AnalyzeIntent(body, reputation, raw) ==
  /\ budget > 0
  /\ budget' = budget - 1
  /\ args' = [body |-> body, reputation |-> reputation, raw |-> raw]
  /\ returned' = analyzeIntent(body, reputation, raw)
  /\ UNCHANGED <<now, nonceStore, identities, repLog, connWatched, connDirty,
                 pc, req, loc, result, nextId, passes, history>>
  /\ UNCHANGED gatewayVars

(***************************************************************************)
(* Specifications                                                          *)
(***************************************************************************)
VerifyStep(t) ==
  \/ NonceGuard(t)
  \/ AgentLookup(t)
  \/ UpdateScript(t)

FallbackStep(t) ==
  \/ FallbackWatch(t)
  \/ FallbackGet(t)
  \/ FallbackUnwatchNotFound(t)
  \/ FallbackCatch(t)
  \/ FallbackExec(t)

SemanticStep(t) ==
  \/ CryptoMiddlewareResume(t)
  \/ CryptoMiddlewareReject(t)
  \/ SemanticChallenge(t)
  \/ SemanticHistory(t)
  \/ AnalyzeCacheGet(t)
  \/ AnalyzeCacheSet(t)
  \/ SemanticStore(t)
  \/ SemanticBlock(t)

AnomalyStep(t) ==
  \/ DetectAnomaly(t)
  \/ UpdateProfileGet(t)
  \/ UpdateProfileSave(t)

ChallengeStep(t) ==
  \/ PolicyLog(t)
  \/ PolicyPending(t)
  \/ PolicyIssue(t)
  \/ PolicyChallengeRespond(t)

RateLimitStep(t) ==
  \/ PolicyRate(t)
  \/ PolicyRateExpire(t)

Init == CryptoInit /\ GatewayInit /\ UnitInit

\* Spec: concurrent verifyRequest calls against the clock.
Next ==
  \/ Tick
  \/ \E pk \in RegisteredKeys : RegisterAgent(pk, FALSE)
  \/ \E t \in Tasks, pk \in PublicKeys, n \in Nonces, off \in TimestampOffsets,
        sigOk \in BOOLEAN : VerifyRequest(t, pk, n, now + off, sigOk)
  \/ \E t \in Tasks : VerifyStep(t)

Spec == Init /\ [][Next]_vars

\* SpecRep: concurrent reputation updates, direct and through verifyRequest,
\* with registration going on.
NextRep ==
  \/ \E pk \in RegisteredKeys : RegisterAgent(pk, FALSE)
  \/ \E t \in Tasks, d \in Deltas : UpdateReputation(t, "pkA", d)
  \/ \E t \in Tasks, n \in Nonces, off \in TimestampOffsets, sigOk \in BOOLEAN :
        VerifyRequest(t, "pkA", n, now + off, sigOk)
  \/ \E t \in Tasks : VerifyStep(t)
  \/ \E t \in Tasks : FallbackStep(t)

SpecRep == Init /\ [][NextRep]_vars

\* SpecGateway: requests through the whole middleware chain.  An agent starts
\* at reputation 50 and loses 5 for a bad signature, so within MaxCalls none
\* falls below the 30 of rate_limit_untrusted: the steps of checkRateLimit
\* run in SpecPolicyMw.
GatewayReplies ==
  {NoLlmReply,
   [kind |-> "json", isMalicious |-> "false", confidence |-> 90,
    threatType |-> "missing", explanation |-> "text", riskScore |-> 40],
   [kind |-> "json", isMalicious |-> "true", confidence |-> 90,
    threatType |-> "data_exfiltration", explanation |-> "text", riskScore |-> 95]}

\* Requests the agent signs, with either nonce, and requests that fail the
\* verifier: from an unregistered key, with a bad signature, with a stale
\* timestamp.
SignedRequest(pk, nonce, offset, sigOk, path, body, challengeId) ==
  [pk |-> pk, nonce |-> nonce, offset |-> offset, sigOk |-> sigOk, path |-> path,
   body |-> body, challengeId |-> challengeId]
GatewayRequests ==
  {SignedRequest("pkA", n, 0, TRUE, c[1], c[2], c[3]) :
     n \in Nonces,
     c \in {<<DataPath, SmallBody, 0>>, <<DataPath, SmallBody, 1>>,
            <<ReportsPath, LargeBody, 0>>, <<DataPath, InjectionBody, 0>>,
            <<AdminPath, SmallBody, 0>>}} \cup
  {SignedRequest("pkB", "n1", 0, TRUE, DataPath, SmallBody, 0),
   SignedRequest("pkA", "n1", 0, FALSE, DataPath, SmallBody, 0),
   SignedRequest("pkA", "n1", 0 - (TIMESTAMP_TOLERANCE_MS + 1), TRUE, DataPath,
                 SmallBody, 0)}

NextGateway ==
  \/ RegisterAgent("pkA", FALSE)
  \/ \E t \in Tasks, auth \in {"missing", "garbled"} : CryptoMiddlewareHeaders(t, auth)
  \/ \E t \in Tasks, r \in GatewayRequests :
        CryptoMiddleware(t, r.pk, r.nonce, now + r.offset, r.sigOk, r.path, r.body,
                         r.challengeId)
  \/ \E t \in Tasks : VerifyStep(t)
  \/ \E t \in Tasks : SemanticStep(t)
  \/ \E t \in Tasks, raw \in GatewayReplies : AnalyzeLlm(t, raw)
  \/ \E t \in Tasks : ChallengeStep(t)
  \/ \E t \in Tasks : AnomalyStep(t)

SpecGateway == Init /\ [][NextGateway]_vars

\* SpecPolicyMw: policyMiddleware on a context of any kind (args), entered
\* often enough to fill the rate-limit window and the pending challenges.
PolicyMwContexts ==
  {PolicyContext(PolicyAgent(rep, FALSE), path, RiskAnalysis(risk)) :
     rep \in {200, 500}, path \in {DataPath, AdminPath}, risk \in {40, 70, 95}}

InitPolicyMw ==
  /\ CryptoState /\ budget = MaxPolicyCalls
  /\ GatewayInit
  /\ args \in PolicyMwContexts /\ returned = <<>>

NextPolicyMw ==
  \/ \E t \in Tasks : PolicyMiddleware(t, args.agent, args.request.path, args.analysis)
  \/ \E t \in Tasks : ChallengeStep(t)
  \/ \E t \in Tasks : RateLimitStep(t)

SpecPolicyMw == InitPolicyMw /\ [][NextPolicyMw]_vars

\* SpecRateLimit: requests of one untrusted agent (reputation 20, decision
\* rate_limit) against the clock, over more than one window.
RateLimitContext == PolicyContext(PolicyAgent(200, FALSE), DataPath, RiskAnalysis(40))

InitRateLimit ==
  /\ CryptoState /\ budget = MaxPolicyCalls
  /\ GatewayInit
  /\ args = RateLimitContext /\ returned = <<>>

NextRateLimit ==
  \/ Tick
  \/ \E t \in Tasks : PolicyMiddleware(t, args.agent, args.request.path, args.analysis)
  \/ \E t \in Tasks : PolicyLog(t)
  \/ \E t \in Tasks : RateLimitStep(t)

SpecRateLimit == InitRateLimit /\ [][NextRateLimit]_vars

\* SpecChallenge: requests of one agent entering semanticMiddleware with and
\* without X-Challenge-Id, the challenges the policy issues them, and the
\* verification endpoint, against the clock.
VerifyStep2(t) ==
  \/ VerifyChallengeGet(t)
  \/ VerifyChallengeDel(t)
  \/ VerifyChallengeSetex(t)
  \/ VerifyChallengeDecr(t)

AnalysisStep(t) ==
  \/ SemanticChallenge(t)
  \/ SemanticHistory(t)
  \/ AnalyzeCacheGet(t)
  \/ AnalyzeCacheSet(t)
  \/ SemanticStore(t)
  \/ SemanticBlock(t)

\* Challenge ids a client sends: none, and the first id the service gives out
\* (unknown until it is issued).
ChallengeIds == 0..1
\* The LLM finds a request suspicious (the policy challenges it) or malicious.
ChallengeReplies ==
  {[kind |-> "json", isMalicious |-> "false", confidence |-> 90,
    threatType |-> "missing", explanation |-> "text", riskScore |-> 70],
   [kind |-> "json", isMalicious |-> "true", confidence |-> 90,
    threatType |-> "data_exfiltration", explanation |-> "text", riskScore |-> 95]}

\* The agent sends its next request when the last one is through; its
\* verifications arrive at any time.
NextRequest(t, id) ==
  /\ \A u \in Tasks : Idle(u)
  /\ SemanticMiddleware(t, PolicyAgent(500, FALSE), DataPath, SmallBody, id)

NextChallenge ==
  \/ TickChallenge
  \/ \E t \in Tasks, id \in ChallengeIds : NextRequest(t, id)
  \/ \E t \in Tasks, id \in ChallengeIds, solved \in BOOLEAN :
        HandleChallengeVerification(t, id, solved)
  \/ \E t \in Tasks : AnalysisStep(t)
  \/ \E t \in Tasks, raw \in ChallengeReplies : AnalyzeLlm(t, raw)
  \/ \E t \in Tasks : ChallengeStep(t)
  \/ \E t \in Tasks : AnomalyStep(t)
  \/ \E t \in Tasks : VerifyStep2(t)

SpecChallenge == Init /\ [][NextChallenge]_vars

\* SpecDrift: one agent is registered and then sends requests that all verify,
\* or that all carry a bad signature (args), each with a nonce of its own.
FreshNonces ==
  <<"f01", "f02", "f03", "f04", "f05", "f06", "f07", "f08",
    "f09", "f10", "f11", "f12", "f13", "f14", "f15", "f16">>

InitDrift ==
  /\ CryptoStateOver(Fingerprints \X {FreshNonces[i] : i \in 1..Len(FreshNonces)})
  /\ budget = MaxPolicyCalls
  /\ GatewayInit
  /\ args \in {[sigOk |-> TRUE], [sigOk |-> FALSE]} /\ returned = <<>>

FreshRequest(t) ==
  /\ budget <= Len(FreshNonces)
  /\ VerifyRequest(t, "pkA", FreshNonces[budget], now, args.sigOk)

\* The administrator registers the agent once.
RegisterOnce ==
  /\ history[getFingerprint("pkA")] = <<>>
  /\ RegisterAgent("pkA", FALSE)

NextDrift ==
  \/ RegisterOnce
  \/ \E t \in Tasks : FreshRequest(t)
  \/ \E t \in Tasks : VerifyStep(t)

SpecDrift == InitDrift /\ [][NextDrift]_vars

\* SpecSkew: requests that carry one timestamp (args) arrive while the clock
\* moves, so the timestamp lies behind the clock, on it, or ahead of it.
InitSkew ==
  /\ CryptoInit /\ GatewayInit
  /\ args \in [timestamp : TimePoints] /\ returned = <<>>

SkewRequest(t) ==
  \E n \in Nonces : VerifyRequest(t, "pkA", n, args.timestamp, TRUE)

NextSkew ==
  \/ Tick
  \/ RegisterOnce
  \/ \E t \in Tasks : SkewRequest(t)
  \/ \E t \in Tasks : VerifyStep(t)

SpecSkew == InitSkew /\ [][NextSkew]_vars

\* SpecOutage: requests through cryptoMiddleware and into semanticMiddleware
\* while commands to the store can fail.
OutageRequest(t) ==
  \E n \in Nonces, sigOk \in BOOLEAN :
    CryptoMiddleware(t, "pkA", n, now, sigOk, DataPath, SmallBody, 0)

NextOutage ==
  \/ RegisterOnce
  \/ \E t \in Tasks : OutageRequest(t)
  \/ \E t \in Tasks : VerifyStep(t)
  \/ \E t \in Tasks : NonceGuardFails(t)
  \/ \E t \in Tasks : CryptoMiddlewareResume(t)
  \/ \E t \in Tasks : CryptoMiddlewareReject(t)
  \/ \E t \in Tasks : SemanticHistoryFails(t)

SpecOutage == Init /\ [][NextOutage]_vars

\* SpecCached: calls of CachedIntentAnalyzer.analyzeIntent out of
\* semanticMiddleware, one for each task, while the clock passes the TTL of
\* the cache.  Two of the paths normalise to one, and two of the reputations
\* share a bucket.
CacheTimePoints == {CacheTTL * 1000, CacheTTL * 1000 + 1}

TickCache ==
  /\ \E t \in CacheTimePoints : t > now /\ now' = t
  /\ UNCHANGED <<nonceStore, identities, repLog, connWatched, connDirty,
                 pc, req, loc, result, budget, nextId, passes, history>>
  /\ UNCHANGED <<gatewayVars, unitVars>>

CachedRequest(t) ==
  \E rep \in {500, 690, 700},
     path \in {<<"api", "users", "42">>, <<"api", "users", "7">>},
     body \in {SmallBody, InjectionBody} :
    SemanticMiddleware(t, PolicyAgent(rep, FALSE), path, body, 0)

NextCached ==
  \/ TickCache
  \/ \E t \in Tasks : CachedRequest(t)
  \/ \E t \in Tasks : SemanticHistory(t)
  \/ \E t \in Tasks : AnalyzeCacheGet(t)
  \/ \E t \in Tasks, raw \in GatewayReplies : AnalyzeLlm(t, raw)
  \/ \E t \in Tasks : AnalyzeCacheSet(t)
  \/ \E t \in Tasks : SemanticStore(t)

SpecCached == Init /\ [][NextCached]_vars

\* SpecAttach: requests of one agent, one after the other, through the semantic
\* layer, the policy and the anomaly detector, with every source of an
\* analysis at work: the trusted skip (reputation 95.1, not 95), LLM replies that pass
\* the schema, replies that fail it (a number out of range; a number missing,
\* kept as -1), the LLM unreachable, cache hits, a completed challenge.
AttachReplies ==
  {NoLlmReply,
   [kind |-> "json", isMalicious |-> "false", confidence |-> 90,
    threatType |-> "missing", explanation |-> "text", riskScore |-> 70],
   [kind |-> "json", isMalicious |-> "true", confidence |-> 90,
    threatType |-> "data_exfiltration", explanation |-> "text", riskScore |-> 95],
   [kind |-> "json", isMalicious |-> "false", confidence |-> 150,
    threatType |-> "missing", explanation |-> "text", riskScore |-> 101],
   [kind |-> "json", isMalicious |-> "false", confidence |-> 0 - 1,
    threatType |-> "missing", explanation |-> "text", riskScore |-> 0 - 1]}

AttachRequest(t) ==
  /\ \A u \in Tasks : Idle(u)
  /\ \E rep \in {500, 950, 951}, id \in ChallengeIds,
        c \in {<<DataPath, SmallBody>>, <<ReportsPath, LargeBody>>,
               <<DataPath, InjectionBody>>} :
       SemanticMiddleware(t, PolicyAgent(rep, FALSE), c[1], c[2], id)

\* The agent solves the challenge it was given.
AttachVerification(t) ==
  /\ \A u \in Tasks : Idle(u)
  /\ HandleChallengeVerification(t, 1, TRUE)

NextAttach ==
  \/ \E t \in Tasks : AttachRequest(t)
  \/ \E t \in Tasks : AttachVerification(t)
  \/ \E t \in Tasks : AnalysisStep(t)
  \/ \E t \in Tasks, raw \in AttachReplies : AnalyzeLlm(t, raw)
  \/ \E t \in Tasks : ChallengeStep(t)
  \/ \E t \in Tasks : AnomalyStep(t)
  \/ \E t \in Tasks : VerifyChallengeGet(t)
  \/ \E t \in Tasks : VerifyChallengeSetex(t)
  \/ \E t \in Tasks : VerifyChallengeDecr(t)

SpecAttach == Init /\ [][NextAttach]_vars

\* SpecAnomaly: detectAnomaly and updateProfile for one agent, called one
\* after the other, across two hours of the clock.
InitAnomaly ==
  /\ CryptoState /\ budget = MaxProfileCalls
  /\ GatewayInit
  /\ args = NoAnomalyArgs /\ returned = NoAnomaly

NextAnomaly ==
  \/ TickHour
  \/ \E r \in AnomalyRequests : DetectAnomalyCall(1, r)
  \/ \E r \in AnomalyRequests : UpdateProfileCall(1, r)

SpecAnomaly == InitAnomaly /\ [][NextAnomaly]_vars

\* SpecCache: set and get on the analysis cache.
InitCache ==
  /\ CryptoInit /\ GatewayInit
  /\ args = NoCacheArgs /\ returned = NoCacheReturn

NextCache ==
  \/ \E r \in CacheRequests, a \in CacheAnalyses, rep \in CacheReputations :
        CacheSet(r, a, rep)
  \/ \E r \in CacheRequests, rep \in CacheReputations : CacheGet(r, rep)

SpecCache == InitCache /\ [][NextCache]_vars

\* SpecPolicy: evaluate on every rule list and context.
InitPolicy ==
  /\ CryptoState /\ budget = MaxEvaluations
  /\ GatewayStores /\ rules \in RuleLists
  /\ args = PolicyContext(NoIdentity, <<>>, NoAnalysis) /\ returned = NoDecision

NextPolicy == \E c \in PolicyContexts : Evaluate(c)

SpecPolicy == InitPolicy /\ [][NextPolicy]_vars

\* SpecAnalyzer: analyzeIntent on every body, reputation and LLM reply.
InitAnalyzer ==
  /\ CryptoState /\ budget = MaxEvaluations
  /\ GatewayInit
  /\ args = NoAnalyzerArgs /\ returned = NoAnalysis

NextAnalyzer ==
  \E b \in AnalyzerBodies, rep \in AnalyzerReputations, raw \in LlmReplies :
    AnalyzeIntent(b, rep, raw)

SpecAnalyzer == InitAnalyzer /\ [][NextAnalyzer]_vars

(***************************************************************************)
(* Claims                                                                  *)
(***************************************************************************)
ReplayError == "Nonce already used - potential replay attack"

\* Two passes of the guard for one nonce key lie at least the TTL apart.
PassesApart ==
  \A k \in NonceKeys : \A i, j \in 1..Len(passes[k]) :
    i < j => passes[k][j] - passes[k][i] >= NONCE_EXPIRY_S * 1000

\* A guard step on a live nonce key returns the replay error and leaves the
\* key alone; a guard step on a key that is not live passes and sets it.
GuardStep ==
  \A t \in Tasks :
    (pc[t] = "v_nonce" /\ pc'[t] # "v_nonce") =>
      LET key == NonceKey(req[t].pk, req[t].nonce)
      IN IF KeyLive(nonceStore, key, now)
         THEN /\ result'[t].error = ReplayError
              /\ pc'[t] = "done"
              /\ nonceStore' = nonceStore
         ELSE /\ pc'[t] = "v_lookup"
              /\ KeyLive(nonceStore', key, now)

\* C1: for one (publicKey, nonce), across every interleaving of verifyRequest
\* calls, at most one call passes the nonce guard while the nonce key is live
\* (60 s); every other call, a sequential second submission within 60 s
\* included, returns the replay error.
C1_NonceAcceptedOnce == [](PassesApart) /\ [][GuardStep]_vars

\* A call was turned away as a replay while the call that consumed the nonce
\* is still in flight.
C1_Witness ==
  \E t, u \in Tasks :
    /\ t # u
    /\ result[t].error = ReplayError
    /\ pc[u] \in {"v_lookup", "u_script"}
    /\ Len(passes[NonceKey(req[u].pk, req[u].nonce)]) = 1

(***************************************************************************)
(* Reputation updates                                                      *)
(***************************************************************************)
\* The reputations a serial run of the deltas ds[i], i in todo, can end in,
\* starting from r.
RECURSIVE SerialResults(_, _, _)
SerialResults(r, ds, todo) ==
  IF todo = {} THEN {r}
  ELSE UNION {SerialResults(ClampReputation(r + ds[i].delta), ds, todo \ {i}) : i \in todo}

\* No updateReputation call is under way for the fingerprint.
Settled(f) == \A t \in Tasks : pc[t] \in {"idle", "done"} \/ loc[t].fp # f

\* The agent was registered once, before any of its updates returned.
RegisteredOnce(f) ==
  /\ Len(history[f]) >= 1
  /\ history[f][1].op = "reg"
  /\ \A i \in 2..Len(history[f]) : history[f][i].op = "update"

\* C2: for the updateReputation calls on one agent that returned, however they
\* interleaved, the stored reputation is what applying their deltas, each
\* clamped to [0, 100], one after the other in some order gives: no update is
\* lost and none is applied twice.
C2_SerialOrder ==
  \A f \in Fingerprints :
    (Settled(f) /\ RegisteredOnce(f)) =>
      identities[f].reputation \in
        SerialResults(InitialReputation * RepScale, Tail(history[f]),
                      1..(Len(history[f]) - 1))

\* C7: every stored identity has 0 <= reputation <= 100, and an identity just
\* registered, with no update since, has reputation 50.
C7_ReputationRange ==
  \A f \in Fingerprints :
    identities[f] # NoIdentity =>
      /\ identities[f].reputation >= 0
      /\ identities[f].reputation <= MaxReputation * RepScale
      /\ (Len(history[f]) > 0 /\ history[f][Len(history[f])].op = "reg")
           => identities[f].reputation = InitialReputation * RepScale

\* A delta that would leave the range was applied and the clamp held it at 0.
C7_Witness ==
  \E f \in Fingerprints :
    /\ identities[f] # NoIdentity
    /\ identities[f].reputation = 0
    /\ Len(repLog[f]) > 0
    /\ repLog[f][1].oldReputation + repLog[f][1].delta < 0

(***************************************************************************)
(* The middleware chain                                                    *)
(***************************************************************************)
\* The place of a milestone in a request's trail, 0 when it is not there.
Place(trail, m) ==
  IF \E i \in 1..Len(trail) : trail[i] = m
  THEN CHOOSE i \in 1..Len(trail) : trail[i] = m
  ELSE 0

SemanticStages == {"sem_challenge", "sem_history", "sem_cache_get", "sem_llm",
                   "sem_cache_set", "sem_store", "sem_block"}
PolicyStages == {"pol_log", "pol_rate", "pol_rate_expire", "pol_pending", "pol_issue",
                 "pol_challenge_log"}

\* C3: a request is forwarded upstream only after, for that request and in
\* this order, the verifier accepted it, an analysis was attached and the
\* policy engine returned a decision; a request the verifier did not accept
\* never reaches semantic analysis, anomaly detection or policy evaluation.
C3_ChainOrder ==
  \A t \in Tasks :
    /\ gw[t].forwarded =>
         /\ gw[t].verified
         /\ gw[t].analysis # NoAnalysis
         /\ gw[t].decision # NoDecision
         /\ 0 < Place(gw[t].trail, "verified")
         /\ Place(gw[t].trail, "verified") < Place(gw[t].trail, "analysis")
         /\ Place(gw[t].trail, "analysis") < Place(gw[t].trail, "decision")
         /\ Place(gw[t].trail, "decision") < Place(gw[t].trail, "forwarded")
    /\ ~gw[t].verified =>
         /\ gw[t].main \notin SemanticStages \cup PolicyStages
         /\ gw[t].post = "none"
         /\ gw[t].analysis = NoAnalysis
         /\ gw[t].anomaly = NoAnomaly
         /\ gw[t].decision = NoDecision
         /\ gw[t].testedRisk = 0 - 1
         /\ ~gw[t].forwarded

\* One request went the whole way and was forwarded; another was rejected by
\* the verifier and answered 403.
C3_Witness ==
  \E t, u \in Tasks :
    /\ gw[t].forwarded
    /\ gw[t].decision.matchedRule = NoRule
    /\ gw[u].main = "closed" /\ gw[u].status = 403 /\ ~gw[u].verified

\* C5: the risk score the policy conditions of a request test is the folded
\* one, min(analysis.riskScore + 20 * anomalyScore, 100): stated for the
\* requests the detector flags as anomalous, which the gateway does fold.
C5_PolicyTestsFoldedRisk ==
  \A t \in Tasks :
    (gw[t].testedRisk # 0 - 1 /\ gw[t].anomaly.isAnomalous) =>
      gw[t].testedRisk = FoldRisk(gw[t].baseRisk, gw[t].anomaly.score)

\* A step raised the reputation of a registered identity.
RepRaised(f) ==
  /\ identities[f] # NoIdentity
  /\ identities'[f].id = identities[f].id
  /\ identities'[f].reputation > identities[f].reputation

\* C6: a request the verifier rejects (expired, replay, unknown agent, invalid
\* signature) never raises a reputation and never creates or changes a
\* profile: a reputation rises only in the step in which verifyRequest
\* returns valid for a request whose signature verified, and a profile
\* changes only in updateProfile of a request that passed the verifier.
C6_RejectedLeavesNoGain ==
  [][ /\ \A f \in Fingerprints :
           RepRaised(f) =>
             \E t \in Tasks :
               /\ gw[t].main = "crypto"
               /\ pc[t] = "u_script" /\ loc[t].fp = f
               /\ req[t].sigOk
               /\ result'[t].valid
      /\ profiles' # profiles =>
           \E t \in Tasks :
             /\ gw[t].post = "upd_save"
             /\ gw[t].verified
             /\ result[t].valid
             /\ \A a \in AgentIds : a # gw[t].agent.id => profiles'[a] = profiles[a]
    ]_vars

\* A request with a bad signature was answered 403 and cost its agent 5
\* points, with no profile made.
C6_Witness ==
  \E t \in Tasks :
    /\ gw[t].main = "closed" /\ gw[t].status = 403 /\ ~gw[t].verified
    /\ result[t].error = "Invalid signature"
    /\ identities[getFingerprint("pkA")].reputation
         = (InitialReputation - InvalidSignaturePenalty) * RepScale
    /\ \A a \in AgentIds : profiles[a] = NoProfile

Eligible(list, context) ==
  {i \in 1..Len(list) :
     list[i].enabled /\ matchesAllConditions(list[i].conditions, context)}

\* C9: evaluate returns the action of the enabled rule with the smallest
\* priority number among the enabled rules whose conditions all match (of
\* several with that number, the one listed first), wherever the rules stand
\* in the list; a disabled rule is never selected; when no enabled rule
\* matches it returns allow with matchedRule null.
C9_SmallestPriorityWins ==
  args \in PolicyContexts =>
    IF Eligible(rules, args) = {}
    THEN returned = [action |-> AllowAction, matchedRule |-> NoRule]
    ELSE \E i \in Eligible(rules, args) :
           /\ returned.matchedRule = rules[i]
           /\ returned.action = rules[i].action
           /\ \A j \in Eligible(rules, args) :
                \/ rules[i].priority < rules[j].priority
                \/ rules[i].priority = rules[j].priority /\ i <= j

\* The rule picked stands behind a matching enabled rule of greater priority
\* number, and a matching rule of smaller number was passed over as disabled.
C9_Witness ==
  /\ args \in PolicyContexts
  /\ \E i, j, k \in 1..Len(rules) :
       /\ returned.matchedRule = rules[j]
       /\ i < j
       /\ i \in Eligible(rules, args)
       /\ rules[i].priority > rules[j].priority
       /\ ~rules[k].enabled
       /\ matchesAllConditions(rules[k].conditions, args)
       /\ rules[k].priority < rules[j].priority

\* The threat types whose patterns the body matches.
Matched(body) == {ty \in ThreatTypes : body.phrases \cap THREAT_PATTERNS[ty] # {}}
FirstMatched(body) ==
  ThreatOrder[CHOOSE i \in 1..Len(ThreatOrder) :
                /\ ThreatOrder[i] \in Matched(body)
                /\ \A j \in 1..(i - 1) : ThreatOrder[j] \notin Matched(body)]

\* C10: when the LLM call fails or its reply fails validation, analyzeIntent
\* returns block with risk 90 and the first matched threat type if the
\* pre-screen matched a pattern; else block with risk 80 if reputation < 60;
\* else challenge with risk 50 if reputation < 85; else allow with risk 20.
C10_FailSafeLadder ==
  ( /\ args # NoAnalyzerArgs
    /\ Matched(args.body) # {} \/ args.reputation <= 95 * RepScale
    /\ ~LlmResponseSchema(args.raw) ) =>
      IF Matched(args.body) # {}
      THEN /\ returned.suggestedAction = "block" /\ returned.riskScore = 90
           /\ returned.threatType = FirstMatched(args.body)
      ELSE IF args.reputation < 60 * RepScale
      THEN returned.suggestedAction = "block" /\ returned.riskScore = 80
      ELSE IF args.reputation < 85 * RepScale
      THEN returned.suggestedAction = "challenge" /\ returned.riskScore = 50
      ELSE returned.suggestedAction = "allow" /\ returned.riskScore = 20

\* The LLM answered JSON that fails the schema, for a clean body of an agent
\* between 60 and 85: the ladder issues a challenge.
C10_Witness ==
  /\ args.raw.kind = "json"
  /\ ~LlmResponseSchema(args.raw)
  /\ Matched(args.body) = {}
  /\ returned.suggestedAction = "challenge"
  /\ returned.riskScore = 50

(***************************************************************************)
(* Rate limiting                                                           *)
(***************************************************************************)
\* The request of task t is under a rate_limit decision.
RateLimited(t) == gw[t].decision.action.type = "rate_limit"

\* C11: under a rate_limit decision at most maxRequests requests of an agent
\* are forwarded within one window: each request increments the agent's
\* counter exactly once and atomically (it observes the live count plus one,
\* 1 on a fresh window, and no other step changes the count); the expiry a
\* request sets is the window; a request is forwarded only with a count within
\* maxRequests, and one that observes more is answered 429.
C11_RateLimitWindow ==
  [][ /\ \A t \in Tasks :
           LET a == gw[t].agent.id
               params == gw[t].decision.action.params
           IN /\ gw[t].main = "pol_rate" /\ gw'[t].main # "pol_rate" =>
                   /\ gw'[t].current = CounterValue(rateLimit[a], now) + 1
                   /\ rateLimit'[a].count = gw'[t].current
                   /\ \A u \in Tasks : u # t => gw'[u] = gw[u]
              /\ gw[t].main = "pol_rate_expire" /\ gw'[t].main # "pol_rate_expire" =>
                   /\ rateLimit'[a].count = rateLimit[a].count
                   /\ CounterLive(rateLimit[a], now) =>
                        rateLimit'[a].expireAt = now + params.windowSeconds * 1000
              /\ RateLimited(t) /\ gw'[t].forwarded /\ ~gw[t].forwarded =>
                   gw'[t].current >= 1 /\ gw'[t].current <= params.maxRequests
              /\ ( /\ RateLimited(t) /\ gw[t].main # "closed" /\ gw'[t].main = "closed"
                   /\ gw'[t].current > params.maxRequests ) =>
                   gw'[t].status = 429 /\ ~gw'[t].forwarded
      /\ \A a \in AgentIds :
           rateLimit'[a].count # rateLimit[a].count =>
             \E t \in Tasks : gw[t].main = "pol_rate" /\ gw[t].agent.id = a
    ]_vars

\* The tenth request of a window was forwarded and the eleventh answered 429,
\* the two in flight together.
C11_Witness ==
  \E t, u \in Tasks :
    /\ RateLimited(t) /\ gw[t].forwarded
    /\ gw[t].current = gw[t].decision.action.params.maxRequests
    /\ RateLimited(u) /\ gw[u].main = "closed" /\ gw[u].status = 429
    /\ gw[u].current = gw[u].decision.action.params.maxRequests + 1

(***************************************************************************)
(* Challenges                                                              *)
(***************************************************************************)
\* The challenges of an agent that are issued, not completed and not expired.
PendingChallenges(a) ==
  {id \in DOMAIN challenges :
     /\ challenges[id].challenge.agentId = a
     /\ ~challenges[id].challenge.completed
     /\ now <= challenges[id].keyExpireAt}

\* C12: in every reachable state, concurrent requests of one agent included,
\* an agent has at most 5 pending challenges.
C12_PendingCap ==
  \A a \in AgentIds : Cardinality(PendingChallenges(a)) <= MaxPendingChallenges

\* The challenge key is there and holds a completed challenge.
CompletedNow(id) ==
  /\ id \in DOMAIN challenges
  /\ now <= challenges[id].keyExpireAt
  /\ challenges[id].challenge.completed

\* C13: a request carrying X-Challenge-Id skips semantic analysis, with
\* riskScore 30, exactly when the named challenge is there and marked
\* completed, and goes through the normal analysis otherwise; a challenge
\* becomes completed only by a verification whose solution is right, which
\* keeps it for 60 s from then.
C13_CompletedChallengeSkips ==
  [][ /\ \A t \in Tasks :
           gw[t].main = "sem_challenge" /\ gw'[t].main # "sem_challenge" =>
             IF CompletedNow(gw[t].challengeId)
             THEN /\ gw'[t].analysis = ChallengePassAnalysis
                  /\ gw'[t].analysis.riskScore = 30
                  /\ gw'[t].testedRisk = 30
                  /\ gw'[t].main \notin SemanticStages
                  /\ gw'[t].found = NoAnalysis
             ELSE /\ gw'[t].main = "sem_history"
                  /\ gw'[t].analysis = NoAnalysis
      /\ \A id \in DOMAIN challenges' :
           ( /\ challenges'[id].challenge.completed
             /\ \/ id \notin DOMAIN challenges
                \/ challenges'[id] # challenges[id] ) =>
             /\ challenges'[id].keyExpireAt = now + CompletedTTL * 1000
             /\ \E t \in Tasks :
                  /\ gw[t].main = "ver_setex" /\ gw[t].challengeId = id /\ gw[t].solved
    ]_vars

\* A retry skipped the analysis on a challenge verified within the last 60 s
\* and was forwarded.
C13_Witness ==
  \E t \in Tasks :
    /\ gw[t].challengeId # 0 /\ gw[t].analysis = ChallengePassAnalysis
    /\ gw[t].forwarded
    /\ CompletedNow(gw[t].challengeId)

(***************************************************************************)
(* The price of a bad signature                                            *)
(***************************************************************************)
RejectionsBeforeSignature ==
  {"Request expired or clock skew detected",
   "Nonce already used - potential replay attack",
   "Unknown agent - not registered"}

\* C14: a request that reaches the signature check with a signature that does
\* not verify goes on to lower its agent's reputation by exactly 5, held at 0,
\* and returns the invalid-signature error; a request rejected as expired,
\* replayed or of an unknown agent changes no reputation.
C14_BadSignatureCostsFive ==
  [][ \A t \in Tasks :
        /\ ( /\ pc[t] = "v_lookup" /\ pc'[t] # "v_lookup"
             /\ identities[getFingerprint(req[t].pk)] # NoIdentity
             /\ ~req[t].sigOk ) =>
             /\ pc'[t] = "u_script"
             /\ loc'[t].fp = getFingerprint(req[t].pk)
             /\ loc'[t].delta = 0 - InvalidSignaturePenalty * RepScale
             /\ identities' = identities
        /\ ( /\ pc[t] = "u_script" /\ pc'[t] # "u_script"
             /\ req[t].op = "verify" /\ ~req[t].sigOk ) =>
             /\ pc'[t] = "done"
             /\ result'[t] = Failure("Invalid signature")
             /\ identities'[loc[t].fp].reputation =
                  Max(0, identities[loc[t].fp].reputation
                           - InvalidSignaturePenalty * RepScale)
             /\ \A f \in Fingerprints \ {loc[t].fp} : identities'[f] = identities[f]
        /\ ( /\ result'[t] # result[t]
             /\ result'[t].error \in RejectionsBeforeSignature ) =>
             identities' = identities
    ]_vars

\* A bad signature was charged to an agent that had less than 5 points left.
C14_Witness ==
  \E t \in Tasks, f \in Fingerprints :
    /\ pc[t] = "done"
    /\ result[t] = Failure("Invalid signature")
    /\ \E i \in 1..Len(repLog[f]) :
         /\ repLog[f][i].delta = 0 - InvalidSignaturePenalty * RepScale
         /\ repLog[f][i].oldReputation < InvalidSignaturePenalty * RepScale
         /\ repLog[f][i].newReputation = 0

\* The updates of a fingerprint since its registration all came from requests
\* that verified (a gain), or all from bad signatures (a loss).
AllGains(f) == \A i \in 2..Len(history[f]) : history[f][i].delta > 0
AllLosses(f) == \A i \in 2..Len(history[f]) : history[f][i].delta < 0

\* C15: for an agent registered once (reputation 50) and updated by nothing
\* but its requests: after k requests that verified, reputation is at most
\* min(100, 50 + 0.1 k); after k attempts with an invalid signature,
\* reputation is at least max(0, 50 - 5 k).
C15_ReputationDrift ==
  \A f \in Fingerprints :
    RegisteredOnce(f) =>
      LET k == Len(history[f]) - 1
      IN /\ AllGains(f) =>
              identities[f].reputation
                <= Min(MaxReputation * RepScale, InitialReputation * RepScale + k)
         /\ AllLosses(f) =>
              identities[f].reputation
                >= Max(0, (InitialReputation - InvalidSignaturePenalty * k) * RepScale)

\* Eleven bad signatures in a row have brought the agent to 0, where 50 - 55
\* would be below it.
C15_Witness ==
  \E f \in Fingerprints :
    /\ RegisteredOnce(f)
    /\ AllLosses(f)
    /\ InitialReputation - InvalidSignaturePenalty * (Len(history[f]) - 1) < 0
    /\ identities[f].reputation = 0

ExpiredFailure == Failure("Request expired or clock skew detected")

\* C16: a call of verifyRequest is rejected as expired exactly when the
\* timestamp of the request lies more than 30 000 ms from the clock, behind it
\* or ahead of it: at 30 000 ms the call goes on to the nonce guard, at
\* 30 001 ms it returns the failure.
C16_TimestampTolerance ==
  [][budget' = budget - 1 /\ history' = history =>
       LET distance == Abs(now - args.timestamp)
           rejected == \E t \in Tasks :
                         /\ Idle(t) /\ pc'[t] = "done" /\ result'[t] = ExpiredFailure
                         /\ \A u \in Tasks : pc'[u] = "v_nonce" => pc[u] = "v_nonce"
           passed == \E t \in Tasks : Idle(t) /\ pc'[t] = "v_nonce"
       IN /\ rejected <=> distance > TIMESTAMP_TOLERANCE_MS
          /\ passed <=> distance <= TIMESTAMP_TOLERANCE_MS
          /\ distance = 30000 => passed
          /\ distance = 30001 => rejected]_vars

\* A timestamp 30 001 ms ahead of the clock was rejected as the first call,
\* before the clock moved.
C16_Witness ==
  /\ now = 0 /\ args.timestamp = 30001 /\ budget = MaxCalls - 1
  /\ \E t \in Tasks : pc[t] = "done" /\ result[t] = ExpiredFailure

\* The request of a task was decoded and verifyRequest returned a failure.
FailedVerification(t) ==
  /\ gw[t].auth = "decoded" /\ pc[t] = "done"
  /\ ~result[t].valid /\ result[t].error # "threw"

\* C17: a request with a header missing is answered 401 and one whose signed
\* payload does not decode is answered 400, and the step that answers leaves
\* the nonces, the identities and the reputation log as they were; a request
\* that was decoded and failed verifyRequest is answered 403.
C17_HeaderErrors ==
  [][\A t \in Tasks :
       /\ gw'[t] # gw[t] /\ gw'[t].auth \in {"missing", "garbled"} =>
            /\ gw'[t].main = "closed"
            /\ gw'[t].status = IF gw'[t].auth = "missing" THEN 401 ELSE 400
            /\ ~gw'[t].forwarded
            /\ nonceStore' = nonceStore /\ passes' = passes
            /\ identities' = identities /\ repLog' = repLog
       /\ FailedVerification(t) /\ gw[t].main # "closed" /\ gw'[t].main = "closed" =>
            gw'[t].status = 403 /\ ~gw'[t].forwarded]_vars

\* After a nonce was consumed and a bad signature cost reputation, one request
\* was answered 400 for its payload and another 403 for its signature.
C17_Witness ==
  \E t, u \in Tasks :
    /\ gw[t].auth = "garbled" /\ gw[t].status = 400
    /\ FailedVerification(u) /\ result[u].error = "Invalid signature"
    /\ gw[u].status = 403
    /\ \E f \in Fingerprints : repLog[f] # <<>>

\* C18: a request during which a command to the store failed is answered, and
\* with 503: not with 400, not with 403, and it is not forwarded.
C18_StoreFailureIs503 ==
  \A t \in Tasks :
    gw[t].kvFailed /\ gw[t].main \in {"closed", "abandoned"} =>
      gw[t].status = 503 /\ ~gw[t].forwarded

\* The request of a task was answered by the policy switch: denied (403) or
\* challenged (401).
PolicyAnswered(t, type, code) ==
  /\ gw[t].main = "closed" /\ gw[t].status = code
  /\ gw[t].decision.action.type = type

\* C19: once a request was answered with a policy deny (403) or a challenge
\* (401), a message was published on gazorpazorp:threats and an entry was
\* pushed on gazorpazorp:security_events.
C19_DenyAndChallengePublished ==
  \A t \in Tasks :
    PolicyAnswered(t, "deny", 403) \/ PolicyAnswered(t, "challenge", 401) =>
      threats # <<>> /\ securityEvents # <<>>

\* analyzeIntent has returned to semanticMiddleware for the request of a task.
AnalysisReturned(u) ==
  gw[u].main \notin {"none", "sem_challenge", "sem_history", "sem_cache_get",
                     "sem_llm", "sem_cache_set"}

\* Two requests agree on (method, normalizedPath, body, reputationBucket).
SameCacheTuple(t, u) ==
  /\ gw[t].method = gw[u].method
  /\ normalizePath(gw[t].path) = normalizePath(gw[u].path)
  /\ gw[t].body = gw[u].body
  /\ getReputationBucket(gw[t].agent.reputation)
       = getReputationBucket(gw[u].agent.reputation)

\* The call of u stored its result, the entry is still the one it stored, and
\* no more than 30 minutes have passed since.
StoredWithinTTL(u) ==
  LET key == CacheKeyOf(RequestOf(gw[u]), gw[u].agent.reputation)
  IN /\ AnalysisReturned(u)
     /\ key \in DOMAIN cache /\ cache[key].analysis = gw[u].found
     /\ now - (cache[key].expireAt - CacheTTL * 1000) <= 30 * 60 * 1000

\* The call of t looks the cache up in this step.
LooksUp(t) == gw[t].main = "sem_cache_get" /\ gw'[t].main # "sem_cache_get"

\* C20 as stated: the second call makes no LLM request and returns a result
\* identical, field for field, to the one the first call returned.
C20_CacheHitIdentical ==
  [][\A t, u \in Tasks :
       t # u /\ LooksUp(t) /\ SameCacheTuple(t, u) /\ StoredWithinTTL(u) =>
         gw'[t].main = "sem_store" /\ gw'[t].found = gw[u].found]_vars

\* C20: when a call has stored its result and a second call with the same
\* (method, normalizedPath, body, reputationBucket) looks the cache up within
\* 30 minutes of the store, the second call makes no LLM request and returns
\* the first call's result with "[CACHED] " put before the explanation and
\* every other field the same.
C20_CacheHitMarked ==
  [][\A t, u \in Tasks :
       t # u /\ LooksUp(t) /\ SameCacheTuple(t, u) /\ StoredWithinTTL(u) =>
         /\ gw'[t].main = "sem_store"
         /\ gw'[t].found.explanation = "[CACHED] " \o gw[u].found.explanation
         /\ \A field \in DOMAIN gw[u].found \ {"explanation"} :
              gw'[t].found[field] = gw[u].found[field]]_vars

\* Thirty minutes after a call that asked the LLM, a call for another id under
\* the same path and from another reputation of the same bucket was answered
\* from the cache.
C20_Witness ==
  \E t, u \in Tasks :
    /\ t # u /\ AnalysisReturned(t) /\ AnalysisReturned(u)
    /\ SameCacheTuple(t, u)
    /\ gw[t].path # gw[u].path
    /\ gw[t].agent.reputation # gw[u].agent.reputation
    /\ now = CacheTTL * 1000
    /\ gw[u].found.explanation = "Tier LLM"
    /\ gw[t].found = [gw[u].found EXCEPT !.explanation = "[CACHED] Tier LLM"]

\* A rule of the list other than the named one matches the context ahead of it.
MatchesAhead(context, id) ==
  \E i \in Eligible(rules, context) :
    rules[i].id # id /\ \A j \in 1..Len(rules) : rules[j].id = id =>
                           rules[i].priority < rules[j].priority

\* C21: with the default ruleset a context of riskScore 90 matches
\* block_high_risk and is denied, and a context of riskScore 89 that no rule of
\* higher priority matches is matched by challenge_suspicious and challenged.
C21_RiskBoundary ==
  rules = DEFAULT_RULES /\ args \in PolicyContexts =>
    /\ args.analysis.riskScore = 90 =>
         returned.matchedRule.id = "block_high_risk" /\ returned.action.type = "deny"
    /\ args.analysis.riskScore = 89 /\ ~MatchesAhead(args, "challenge_suspicious") =>
         /\ returned.matchedRule.id = "challenge_suspicious"
         /\ returned.action.type = "challenge"

\* riskScore within [0, 100] and confidence within [0, 1] (in hundredths).
InRange(analysis) ==
  /\ analysis.riskScore >= 0 /\ analysis.riskScore <= 100
  /\ analysis.confidence >= 0 /\ analysis.confidence <= 100

\* C22: every analysis attached to a request, and every analysis analyzeIntent
\* handed back or the cache holds, has riskScore within [0, 100] and confidence
\* within [0, 1], whatever the LLM replied; so a reply with a number missing or
\* out of range is never the result.
C22_AnalysisInRange ==
  /\ \A t \in Tasks :
       /\ gw[t].analysis # NoAnalysis => InRange(gw[t].analysis)
       /\ gw[t].found # NoAnalysis => InRange(gw[t].found)
  /\ \A k \in DOMAIN cache : InRange(cache[k].analysis)

\* A blocked request of riskScore 95 was folded with its anomaly score and
\* stopped at 100.
C22_Witness ==
  \E t \in Tasks :
    /\ \E i \in 1..Len(gw[t].trail) : gw[t].trail[i] = "folded"
    /\ gw[t].baseRisk = 95 /\ gw[t].analysis.riskScore = 100

\* The cached analyzer missed in this step, so IntentAnalyzer.analyzeIntent
\* runs for the request of t up to its fetch or its return.
AnalyzerEntered(t) ==
  /\ gw[t].main = "sem_cache_get" /\ gw'[t].main # "sem_cache_get"
  /\ ~CacheHit(cache, CacheKeyOf(RequestOf(gw[t]), gw[t].agent.reputation), now)

\* C23: analyzeIntent returns the Tier A result (not malicious, risk 5,
\* confidence 0.95, allow) with no LLM request exactly when no threat pattern
\* matches the body and the reputation is above 95; when a pattern matches the
\* LLM is asked whatever the reputation.
C23_TierASkip ==
  [][\A t \in Tasks :
       AnalyzerEntered(t) =>
         LET clean == Matched(gw[t].body) = {}
             trusted == gw[t].agent.reputation > 95 * RepScale
         IN /\ gw'[t].main = "sem_llm" <=> ~(clean /\ trusted)
            /\ clean /\ trusted =>
                 /\ ~gw'[t].found.isMalicious /\ gw'[t].found.riskScore = 5
                 /\ gw'[t].found.confidence = 95
                 /\ gw'[t].found.suggestedAction = "allow"
            /\ ~(clean /\ trusted) => gw'[t].found = gw[t].found]_vars

\* An agent of reputation 95.1 sent a clean body and got the Tier A result,
\* and an injection from the same reputation went to the LLM.
C23_Witness ==
  \E t \in Tasks :
    /\ gw[t].agent.reputation = 951 /\ gw[t].body = InjectionBody
    /\ gw[t].main = "sem_llm"
    /\ \E k \in DOMAIN cache :
         cache[k].byReputation = 951 /\ cache[k].analysis.explanation = "Tier A"

RECURSIVE SumSeq(_)
SumSeq(seq) == IF seq = <<>> THEN 0 ELSE Head(seq) + SumSeq(Tail(seq))

\* C24: a call of detectAnomaly leaves the stored profile as it was; for an
\* agent without a profile it returns isAnomalous false, score 0 and the
\* no-baseline reason; otherwise the score is the sum of the scores of the
\* signals that fired, cut at 1.0, and isAnomalous holds exactly when the
\* score is above 0.5 (scores in twentieths).
C24_AnomalyScore ==
  [][budget' = budget - 1 /\ args'.op = "detect" =>
       /\ profiles' = profiles
       /\ IF ~profiles[1].known
          THEN /\ ~returned'.isAnomalous /\ returned'.score = 0
               /\ returned'.reasons = <<"No baseline established">>
          ELSE /\ returned'.score = Min(SumSeq(returned'.signals), 20)
               /\ Len(returned'.reasons) = Len(returned'.signals)
               /\ returned'.isAnomalous <=> returned'.score > 10]_vars

\* Three signals fired with 0.3, 0.4 and 0.5 and the score was cut at 1.0.
C24_Witness ==
  /\ args.op = "detect"
  /\ returned.signals = <<6, 8, 10>>
  /\ returned.score = 20 /\ returned.isAnomalous

\* The request of a task, of riskScore 70, was answered 401 under a challenge
\* decision.
ChallengedAtSeventy(t) ==
  /\ PolicyAnswered(t, "challenge", 401)
  /\ gw[t].analysis.riskScore = 70

ExpiredError == "Request expired or clock skew detected"
UnknownAgentError == "Unknown agent - not registered"
InvalidSignatureError == "Invalid signature"

\* The nonce key of the verifyRequest call a task is in.
KeyOf(t) == NonceKey(req[t].pk, req[t].nonce)

\* Some call passed the guard on the key no more than NONCE_EXPIRY_S ago.
ConsumedWithin(key) ==
  \E i \in 1..Len(passes[key]) : now - passes[key][i] <= NONCE_EXPIRY_S * 1000

\* 1. The call begins with the timestamp: it returns the expiry error or goes
\* on to the guard, and has touched neither the nonces nor the identities.
BeginsWithTimestamp(t) ==
  (pc[t] \in {"idle", "done"} /\ (pc'[t] # pc[t] \/ result'[t] # result[t])) =>
    /\ nonceStore' = nonceStore /\ identities' = identities
    /\ \/ pc'[t] = "v_nonce"
       \/ pc'[t] = "done" /\ result'[t].error = ExpiredError

\* 2. The guard comes next: the replay error or the lookup, the identities
\* not yet touched.
GuardBeforeLookup(t) ==
  (pc[t] = "v_nonce" /\ pc'[t] # "v_nonce") =>
    /\ identities' = identities /\ repLog' = repLog
    /\ \/ pc'[t] = "v_lookup" /\ KeyLive(nonceStore', KeyOf(t), now)
       \/ pc'[t] = "done" /\ result'[t].error = ReplayError

\* 3. The lookup: an unknown agent returns before any signature counts.
LookupBeforeSignature(t) ==
  (pc[t] = "v_lookup" /\ pc'[t] # "v_lookup") =>
    /\ nonceStore' = nonceStore /\ identities' = identities
    /\ IF identities[getFingerprint(req[t].pk)] = NoIdentity
       THEN pc'[t] = "done" /\ result'[t].error = UnknownAgentError
       ELSE pc'[t] = "u_script"

\* A call that returns as unknown agent or invalid signature has consumed its
\* nonce: it passed the guard and the key was written.
FailureConsumedNonce(t) ==
  (/\ pc[t] \notin {"idle", "done"} /\ pc'[t] = "done"
   /\ result'[t].error \in {UnknownAgentError, InvalidSignatureError}) =>
    /\ passes[KeyOf(t)] # <<>>
    /\ nonceStore[KeyOf(t)] # Absent
    /\ result'[t].error = InvalidSignatureError => ~req[t].sigOk

\* A call that reaches the guard within NONCE_EXPIRY_S of a pass on its key
\* is a replay, whatever its signature and whoever its agent.
ReplayAfterConsumption(t) ==
  (pc[t] = "v_nonce" /\ pc'[t] # "v_nonce" /\ ConsumedWithin(KeyOf(t))) =>
    pc'[t] = "done" /\ result'[t].error = ReplayError

VerifyOrder ==
  \A t \in Tasks :
    /\ BeginsWithTimestamp(t)
    /\ GuardBeforeLookup(t)
    /\ LookupBeforeSignature(t)
    /\ FailureConsumedNonce(t)
    /\ ReplayAfterConsumption(t)

\* C26: verifyRequest checks the timestamp, then the nonce guard, then the
\* agent lookup, then the signature, and returns at the first failure; a call
\* that fails as unknown agent or invalid signature has consumed its nonce,
\* and a later call with the same (publicKey, nonce) within 60 s is a replay
\* even when it is validly signed.
C26_CheckOrder == [][VerifyOrder]_vars

\* A validly signed request of a registered agent stands at the guard on the
\* only nonce key ever consumed, after the call that consumed it returned
\* "Invalid signature".
C26_Witness ==
  \E t, u \in Tasks :
    /\ t # u
    /\ pc[u] = "done" /\ result[u].error = InvalidSignatureError
    /\ pc[t] = "v_nonce" /\ req[t].sigOk
    /\ identities[getFingerprint(req[t].pk)] # NoIdentity
    /\ KeyLive(nonceStore, KeyOf(t), now)
    /\ \A k \in NonceKeys : Len(passes[k]) = IF k = KeyOf(t) THEN 1 ELSE 0

(***************************************************************************)
(* Requests the analyzer wants blocked                                     *)
(***************************************************************************)
\* C27: a request whose AnalysisResult has suggestedAction = block, the
\* fail-safe results of an unreachable LLM included (riskScore 90 after a
\* pre-screen match, riskScore 80 for a reputation below 60), is never
\* forwarded upstream.
C27_BlockNeverForwarded ==
  \A t \in Tasks :
    gw[t].analysis.suggestedAction = "block" => ~gw[t].forwarded

(***************************************************************************)
(* A completed challenge in another agent's hands                          *)
(***************************************************************************)
\* A second verified agent.
OtherAgent(reputation) == [PolicyAgent(reputation, FALSE) EXCEPT !.id = 2]

\* SpecBorrow: two agents send their requests one after the other, with or
\* without the X-Challenge-Id of the first challenge issued; the challenge is
\* solved by whoever holds its id.
BorrowRequest(t) ==
  /\ \A u \in Tasks : Idle(u)
  /\ \E agent \in {PolicyAgent(500, FALSE), OtherAgent(500)}, id \in ChallengeIds :
       SemanticMiddleware(t, agent, DataPath, SmallBody, id)

NextBorrow ==
  \/ \E t \in Tasks : BorrowRequest(t)
  \/ \E t \in Tasks : AttachVerification(t)
  \/ \E t \in Tasks : AnalysisStep(t)
  \/ \E t \in Tasks, raw \in ChallengeReplies : AnalyzeLlm(t, raw)
  \/ \E t \in Tasks : ChallengeStep(t)
  \/ \E t \in Tasks : AnomalyStep(t)
  \/ \E t \in Tasks : VerifyChallengeGet(t)
  \/ \E t \in Tasks : VerifyChallengeSetex(t)
  \/ \E t \in Tasks : VerifyChallengeDecr(t)

SpecBorrow == Init /\ [][NextBorrow]_vars

\* C28: a completed challenge short-circuits the semantic analysis only for
\* requests of the agent it was issued to: a request that was given the
\* analysis of a completed challenge comes from the agent of that challenge.
C28_ChallengeBoundToAgent ==
  \A t \in Tasks :
    gw[t].analysis = ChallengePassAnalysis =>
      /\ gw[t].challengeId \in DOMAIN challenges
      /\ challenges[gw[t].challengeId].challenge.agentId = gw[t].agent.id

(***************************************************************************)
(* One signed payload over its lifetime                                    *)
(***************************************************************************)
\* The calls of verifyRequest that returned { valid: true } for a fingerprint.
RECURSIVE AcceptedCalls(_)
AcceptedCalls(h) ==
  IF h = <<>> THEN 0
  ELSE (IF Head(h).op = "update" /\ Head(h).delta > 0 THEN 1 ELSE 0)
       + AcceptedCalls(Tail(h))

\* The nonces of a public key that passed the guard at least once.
NoncesPassed(pk) == {n \in Nonces : passes[NonceKey(pk, n)] # <<>>}

\* C29: no signed payload is accepted by verifyRequest more than once.  The
\* requests of SpecSkew carry one public key and one timestamp, so a payload
\* is its nonce: the accepted calls are no more than the nonces used.
C29_PayloadAcceptedOnce ==
  AcceptedCalls(history[getFingerprint("pkA")]) <= Cardinality(NoncesPassed("pkA"))

(***************************************************************************)
(* Profile updates of concurrent requests                                  *)
(***************************************************************************)
\* The requests the profiles have counted, over every agent id.
RECURSIVE CountedRequests(_)
CountedRequests(ids) ==
  IF ids = {} THEN 0
  ELSE LET a == CHOOSE x \in ids : TRUE
       IN SumOver(profiles[a].commonPaths, DOMAIN profiles[a].commonPaths)
          + CountedRequests(ids \ {a})

\* C30: every request that passes verification updates the profile of its
\* agent exactly once: when no request is under way, the commonPaths counts
\* add up to the number of requests that verified.
C30_ProfileCountsRequests ==
  (\A t \in Tasks : Idle(t)) =>
    CountedRequests(AgentIds) = AcceptedCalls(history[getFingerprint("pkA")])

(***************************************************************************)
(* Concurrent verifications of one challenge                               *)
(***************************************************************************)
\* The verification a task handled was answered 200: verifyChallenge
\* returned valid.
VerifiedValid(t) ==
  gw[t].challengeId # 0 /\ gw[t].solved /\ gw[t].main = "closed" /\ gw[t].status = 200

\* C31: each challenge is successfully verified at most once: no two calls of
\* verifyChallenge for one challenge id return valid, and the pending counter
\* of the agent, incremented once per challenge issued, is decremented at most
\* once per challenge and so never falls below zero.
C31_VerifiedAtMostOnce ==
  /\ \A t, u \in Tasks :
       (t # u /\ VerifiedValid(t) /\ VerifiedValid(u)) =>
         gw[t].challengeId # gw[u].challengeId
  /\ \A a \in AgentIds : CounterValue(challengeCount[a], now) >= 0

(***************************************************************************)
(* The pending counter against the challenges that are pending             *)
(***************************************************************************)
\* C32: in every state the counter challenges:count:<agentId> is non-negative
\* and equals the number of the agent's issued challenges that are neither
\* completed nor expired.  The states between the SETEX and the DECR of a
\* verification under way are left out.
C32_CounterIsPending ==
  (\A t \in Tasks : gw[t].main \notin {"ver_setex", "ver_decr"}) =>
    \A a \in AgentIds :
      /\ CounterValue(challengeCount[a], now) >= 0
      /\ CounterValue(challengeCount[a], now) = Cardinality(PendingChallenges(a))

(***************************************************************************)
(* An LLM endpoint that does not answer                                    *)
(***************************************************************************)
\* SpecSilent: requests enter semantic analysis one after the other.  Every
\* awaited command to the store completes (weak fairness on the steps that
\* follow one); the fetch of analyzeIntent carries no signal and no timer, so
\* it settles when the endpoint answers or the connection fails, and nothing
\* in the program makes that happen.
SilentRequest(t) ==
  /\ \A u \in Tasks : Idle(u)
  /\ \E body \in {SmallBody, InjectionBody} :
       SemanticMiddleware(t, PolicyAgent(500, FALSE), DataPath, body, 0)

SilentStep(t) ==
  \/ SemanticHistory(t)
  \/ AnalyzeCacheGet(t)
  \/ AnalyzeCacheSet(t)
  \/ SemanticStore(t)
  \/ SemanticBlock(t)
  \/ ChallengeStep(t)
  \/ AnomalyStep(t)

NextSilent ==
  \/ \E t \in Tasks : SilentRequest(t)
  \/ \E t \in Tasks : SilentStep(t)
  \/ \E t \in Tasks, raw \in {NoLlmReply} \cup ChallengeReplies : AnalyzeLlm(t, raw)

SpecSilent ==
  Init /\ [][NextSilent]_vars /\ WF_vars(\E t \in Tasks : SilentStep(t))

\* C33: analyzeIntent returns even when the LLM endpoint never responds: a
\* request that waits for the LLM eventually goes on.
C33_AnalysisReturns ==
  \A t \in Tasks : (gw[t].main = "sem_llm") ~> (gw[t].main # "sem_llm")

(***************************************************************************)
(* Fail-safe results and the cache                                         *)
(***************************************************************************)
\* The result is one of the fail-safe ladder, handed out by the cache.
CachedFailSafe(analysis) == analysis.explanation = "[CACHED] LLM analysis unavailable"

\* C34: a result of the fail-safe ladder is never served from the analysis
\* cache: no request is given, as its analysis, a cached copy of a result that
\* was produced while the LLM was unreachable.
C34_FailSafeNotServed ==
  \A t \in Tasks : ~CachedFailSafe(gw[t].found) /\ ~CachedFailSafe(gw[t].analysis)

(***************************************************************************)
(* The attempts of updateReputationFallback                                *)
(***************************************************************************)
\* SpecRetry: updateReputation calls on one agent that is registered, and
\* registered again, while they run: enough writes to abort one call's
\* transaction maxRetries times.
InitRetry ==
  /\ CryptoState /\ budget = MaxRetryCalls
  /\ GatewayInit /\ UnitInit

NextRetry ==
  \/ RegisterAgent("pkA", FALSE)
  \/ \E t \in Tasks, d \in {0 - 20, 60} : UpdateReputation(t, "pkA", d)
  \/ \E t \in Tasks : UpdateScript(t)
  \/ \E t \in Tasks : FallbackWatch(t)
  \/ \E t \in Tasks : FallbackGet(t)
  \/ \E t \in Tasks : FallbackUnwatchNotFound(t)
  \/ \E t \in Tasks : FallbackCatch(t)
  \/ \E t \in Tasks : FallbackExec(t)

SpecRetry == InitRetry /\ [][NextRetry]_vars

InFallback(t) == pc[t] \in {"f_watch", "f_get", "f_unwatch_notfound", "f_catch", "f_exec"}
RetriesExhausted == "Failed to update reputation after max retries"

\* The task goes round to its next attempt.
Retries(t) ==
  InFallback(t) /\ pc'[t] = "f_watch" /\ loc'[t].attempt = loc[t].attempt + 1

\* The EXEC of a call settles: on a clean connection it writes the identity
\* and one log entry and the call returns the reputation written; on a dirty
\* one it writes nothing, and the call goes round again or, on the last
\* attempt, fails.
ExecSettles(t) ==
  (pc[t] = "f_exec" /\ pc'[t] # "f_exec") =>
    LET fp == loc[t].fp
        new == ClampReputation(loc[t].read.reputation + loc[t].delta)
    IN IF ~connDirty
       THEN /\ identities'[fp].reputation = new
            /\ Len(repLog'[fp]) = Min(Len(repLog[fp]) + 1, LogCap)
            /\ repLog'[fp][1] = LogEntry(loc[t].read.reputation, new, loc[t].delta)
            /\ pc'[t] = "done" /\ result'[t].valid /\ result'[t].value = new
            /\ Len(history'[fp]) = Len(history[fp]) + 1
       ELSE /\ identities' = identities /\ repLog' = repLog /\ history' = history
            /\ IF loc[t].attempt + 1 < maxRetries
               THEN Retries(t)
               ELSE pc'[t] = "done" /\ result'[t] = Failure(RetriesExhausted)

\* Every other step of the fallback writes neither the identity nor the log,
\* and a call that fails has used all its attempts.
OtherStepsWriteNothing(t) ==
  /\ (InFallback(t) /\ pc[t] # "f_exec" /\ pc'[t] # pc[t]) =>
       identities' = identities /\ repLog' = repLog /\ history' = history
  /\ (InFallback(t) /\ pc'[t] = "done" /\ ~result'[t].valid) =>
       loc[t].attempt = maxRetries - 1

\* C35 as stated: the fallback goes round again only when its transaction was
\* aborted by a write to the identity.
C35_RetryOnlyOnAbort ==
  [][\A t \in Tasks : Retries(t) => pc[t] = "f_exec" /\ connDirty]_vars

\* C35: the fallback applies its delta at most once per call.  It returns a
\* new reputation only when its transaction committed, having written the
\* identity and one log entry in that step; it goes round again when the
\* transaction was aborted or when the attempt threw (the identity is not
\* there); it makes at most 3 attempts, and a call that fails has written
\* neither the identity nor the log.
C35_FallbackAttempts ==
  [][\A t \in Tasks :
       /\ ExecSettles(t)
       /\ OtherStepsWriteNothing(t)
       /\ Retries(t) => \/ pc[t] = "f_exec" /\ connDirty
                        \/ pc[t] = "f_catch"]_vars

\* A call failed after its transaction was aborted three times, while three
\* other writes went through.
C35_Witness ==
  \E t \in Tasks :
    /\ pc[t] = "done" /\ result[t] = Failure(RetriesExhausted)
    /\ Len(history[getFingerprint("pkA")]) = 3

(***************************************************************************)
(* The identity against its reputation log                                 *)
(***************************************************************************)
\* C36: the identity and its audit entry are written together: whenever the
\* reputation log of an agent is not empty, the newReputation of its newest
\* entry (the head of the list) is the reputation stored in the identity, and
\* the oldReputation of each entry is the newReputation of the entry written
\* just before it.
C36_LogFollowsIdentity ==
  \A f \in Fingerprints :
    repLog[f] # <<>> =>
      /\ repLog[f][1].newReputation = identities[f].reputation
      /\ \A i \in 1..(Len(repLog[f]) - 1) :
           repLog[f][i].oldReputation = repLog[f][i + 1].newReputation

(***************************************************************************)
(* The expiry of the identity key                                          *)
(***************************************************************************)
\* C37: after every write to an agent identity the key carries a TTL counted
\* from that write: no stored identity is without an expiry, and the step
\* that writes an identity leaves it with a TTL that starts at that step.
C37_IdentityKeepsTTL ==
  /\ [](\A f \in Fingerprints : identities[f] # NoIdentity => identities[f].ttlFrom # NoTTL)
  /\ [][\A f \in Fingerprints :
          identities'[f] # identities[f] => identities'[f].ttlFrom = now]_vars

(***************************************************************************)
(* The rate-limit key and its expiry                                       *)
(***************************************************************************)
\* checkRateLimit of the gateway without the challenge service:
\* const current = await this.redis.incr(key); the expiry is set only by the
\* call that observes 1.
PolicyRateIncr(t) ==
  /\ gw[t].main = "pol_rate"
  /\ LET key == rateLimit[gw[t].agent.id]
         live == CounterLive(key, now)
         current == CounterValue(key, now) + 1
     IN /\ rateLimit' = [rateLimit EXCEPT ![gw[t].agent.id] =
              [count |-> current, expireAt |-> IF live THEN key.expireAt ELSE NoTTL]]
        /\ gw' = [gw EXCEPT ![t] =
              IF current = 1
              THEN [@ EXCEPT !.current = current, !.main = "pol_rate_expire"]
              ELSE RateLimitOutcome(@, current)]
  /\ UNCHANGED <<profiles, agentHistory, securityEvents, threats, auditLog,
                 challenges, challengeCount, nextChallenge, cache, rules>>
  /\ UNCHANGED <<cryptoVars, unitVars>>

\* The call is interrupted between its increment and its expire: the expire
\* command rejects, checkRateLimit throws and the request is answered 500.
PolicyRateExpireFails(t) ==
  /\ gw[t].main = "pol_rate_expire"
  /\ gw' = [gw EXCEPT ![t] = Respond([@ EXCEPT !.kvFailed = TRUE], 500)]
  /\ UNCHANGED <<profiles, agentHistory, securityEvents, threats, auditLog, rateLimit,
                 challenges, challengeCount, nextChallenge, cache, rules>>
  /\ UNCHANGED <<cryptoVars, unitVars>>

\* SpecInterrupt: the requests of SpecRateLimit through the checkRateLimit with
\* the transaction, each expire free to fail.
NextInterrupt ==
  \/ Tick
  \/ \E t \in Tasks : PolicyMiddleware(t, args.agent, args.request.path, args.analysis)
  \/ \E t \in Tasks : PolicyLog(t)
  \/ \E t \in Tasks : PolicyRate(t)
  \/ \E t \in Tasks : PolicyRateExpire(t)
  \/ \E t \in Tasks : PolicyRateExpireFails(t)

SpecInterrupt == InitRateLimit /\ [][NextInterrupt]_vars

\* SpecInterruptIncr: the same requests through the checkRateLimit that
\* increments without a transaction.
NextInterruptIncr ==
  \/ Tick
  \/ \E t \in Tasks : PolicyMiddleware(t, args.agent, args.request.path, args.analysis)
  \/ \E t \in Tasks : PolicyLog(t)
  \/ \E t \in Tasks : PolicyRateIncr(t)
  \/ \E t \in Tasks : PolicyRateExpire(t)
  \/ \E t \in Tasks : PolicyRateExpireFails(t)

SpecInterruptIncr == InitRateLimit /\ [][NextInterruptIncr]_vars

\* The step is the return of a checkRateLimit call of task t, and no other
\* call stands between its increment and its expire.
RateLimitReturns(t) ==
  /\ gw[t].main \in {"pol_rate", "pol_rate_expire"}
  /\ gw'[t].main = "closed" /\ ~gw'[t].kvFailed
  /\ \A u \in Tasks : gw'[u].main # "pol_rate_expire"

\* The rate-limit key of agent a, if it is there, expires within the window.
ExpiresWithin(counter, clock, windowSeconds) ==
  CounterLive(counter, clock) =>
    /\ counter.expireAt # NoTTL
    /\ counter.expireAt <= clock + windowSeconds * 1000

\* C38: the rate-limit key of an agent never persists without an expiry: when
\* a checkRateLimit call returns, one that follows a call interrupted between
\* its increment and its expire included, the key carries a time-to-live of at
\* most windowSeconds, so that the counter resets and the agent is admitted again.
C38_KeyAlwaysExpires ==
  [][\A t \in Tasks :
       RateLimitReturns(t) =>
         ExpiresWithin(rateLimit'[gw[t].agent.id], now',
                       gw[t].decision.action.params.windowSeconds)]_vars

(***************************************************************************)
(* issueChallenge and the proof of work                                    *)
(***************************************************************************)
MaxIssueCalls == 3
MaxZeros == 5

\* The risk scores a rule may send to a challenge: the ends of the score and
\* both sides of the thresholds of the type and of the difficulty.
IssueRisks == {0, 59, 60, 79, 80, 99, 100}

\* policyMiddleware's call issueChallenge(context.agent.id,
\* context.analysis.riskScore), under whatever rule asked for a challenge: the
\* challenge is built and its setex awaited.
IssueChallenge(t, agent, riskScore) ==
  /\ Free(t)
  /\ budget > 0
  /\ budget' = budget - 1
  /\ gw' = [gw EXCEPT ![t] =
       [NoGw EXCEPT !.method = "POST", !.path = DataPath, !.verified = TRUE,
                    !.agent = agent, !.analysis = RiskAnalysis(riskScore),
                    !.challenge = NewChallenge(nextChallenge, agent.id, riskScore, now),
                    !.main = "pol_issue"]]
  /\ nextChallenge' = nextChallenge + 1
  /\ UNCHANGED <<now, nonceStore, identities, repLog, connWatched, connDirty,
                 pc, req, loc, result, nextId, passes, history>>
  /\ UNCHANGED <<profiles, agentHistory, securityEvents, threats, auditLog, rateLimit,
                 challenges, challengeCount, cache, rules>>
  /\ UNCHANGED unitVars

\* SpecIssue: challenges issued at every risk score, and proof-of-work
\* solutions with digests of every number of leading zero characters, one
\* request after the other, against the clock.
InitIssue ==
  /\ CryptoState /\ budget = MaxIssueCalls
  /\ GatewayInit
  /\ UnitInit

IssueRequest(t, riskScore) ==
  /\ \A u \in Tasks : Idle(u)
  /\ IssueChallenge(t, PolicyAgent(500, FALSE), riskScore)

SolveRequest(t, id, zeros) ==
  /\ \A u \in Tasks : Idle(u)
  /\ HandleProofOfWork(t, id, zeros)

NextIssue ==
  \/ TickChallenge
  \/ \E t \in Tasks, riskScore \in IssueRisks : IssueRequest(t, riskScore)
  \/ \E t \in Tasks : PolicyIssue(t)
  \/ \E t \in Tasks : PolicyChallengeRespond(t)
  \/ \E t \in Tasks, id \in 1..(MaxIssueCalls - 1), zeros \in 0..MaxZeros :
        SolveRequest(t, id, zeros)
  \/ \E t \in Tasks : VerifyChallengeGet(t)
  \/ \E t \in Tasks : VerifyChallengeDel(t)
  \/ \E t \in Tasks : VerifyChallengeSetex(t)
  \/ \E t \in Tasks : VerifyChallengeDecr(t)

SpecIssue == InitIssue /\ [][NextIssue]_vars

\* The type, difficulty and nonce the claim gives a challenge of this risk.
IssuedAs(challenge, riskScore) ==
  /\ challenge.type = IF riskScore >= 80 THEN "proof_of_work"
                      ELSE IF riskScore >= 60 THEN "signature_refresh"
                      ELSE "rate_delay"
  /\ challenge.type = "proof_of_work" =>
       /\ challenge.difficulty = Min(5, Max(2, riskScore \div 20))
       /\ challenge.nonce = NoNonce
  /\ challenge.type = "signature_refresh" =>
       /\ challenge.nonce # NoNonce
       /\ challenge.difficulty = 0

\* C39: issueChallenge(agent, risk) makes a proof_of_work challenge at risk 80
\* and above, a signature_refresh challenge from 60 up to 80 and a rate_delay
\* challenge below; a proof of work carries the difficulty
\* clamp(floor(risk/20), 2, 5) and no nonce, a signature refresh a nonce and no
\* difficulty; the challenge is built uncompleted with an expiresAt 5 minutes
\* after its creation, is stored as built under a key that lives 5 minutes,
\* and its storing raises the agent's pending counter by one.
C39_IssuedChallenge ==
  [][\A t \in Tasks :
       /\ gw[t].main # "pol_issue" /\ gw'[t].main = "pol_issue" =>
            /\ IssuedAs(gw'[t].challenge, gw'[t].analysis.riskScore)
            /\ gw'[t].challenge.agentId = gw'[t].agent.id
            /\ ~gw'[t].challenge.completed
            /\ gw'[t].challenge.expiresAt = now + 5 * 60 * 1000
            /\ gw'[t].challenge.id \notin DOMAIN challenges
       /\ gw[t].main = "pol_issue" /\ gw'[t].main # "pol_issue" =>
            LET id == gw[t].challenge.id
                a == gw[t].agent.id
            IN /\ id \in DOMAIN challenges'
               /\ challenges'[id].challenge = gw[t].challenge
               /\ ~challenges'[id].challenge.completed
               /\ challenges'[id].keyExpireAt = now + 5 * 60 * 1000
               /\ CounterValue(challengeCount'[a], now) =
                    CounterValue(challengeCount[a], now) + 1]_vars

\* A proof of work of difficulty 5 and a signature refresh are stored, and the
\* agent's counter stands at 2.
C39_Witness ==
  \E i, j \in DOMAIN challenges :
    /\ challenges[i].challenge.type = "proof_of_work"
    /\ challenges[i].challenge.difficulty = 5
    /\ challenges[j].challenge.type = "signature_refresh"
    /\ challenges[j].challenge.nonce # NoNonce
    /\ CounterValue(challengeCount[challenges[i].challenge.agentId], now) = 2

\* verifyChallenge of task t has read a proof of work that is there, not
\* completed and not expired, and checks the solution against it.
ProofOfWorkChecked(t) ==
  /\ gw[t].main = "ver_get" /\ gw[t].zeros # NoDigest
  /\ gw[t].challengeId \in DOMAIN challenges
  /\ now <= challenges[gw[t].challengeId].keyExpireAt
  /\ challenges[gw[t].challengeId].challenge.type = "proof_of_work"
  /\ ~challenges[gw[t].challengeId].challenge.completed
  /\ now <= challenges[gw[t].challengeId].challenge.expiresAt

\* A solution that is not accepted is answered 400 and nothing is written.
RejectedWritesNothing(t) ==
  gw'[t].main # "ver_setex" =>
    /\ gw'[t].main = "closed" /\ gw'[t].status = 400
    /\ challenges' = challenges
    /\ challengeCount' = challengeCount

====
